---- MODULE Spec2Model ----
(***************************************************************************)
(* Model of the response pipeline of xiaozhi-esp32-server-golang:          *)
(*   - the channel-based sentence Controller                               *)
(*       internal/domain/llm/llm.go  HandleLLMWithContextAndTools          *)
(*   - the tool-call accumulator                                           *)
(*       internal/domain/llm/common/types.go  EinoResponseWithTools        *)
(* Strings are sequences of one-character strings, so that lengths,        *)
(* trimming, scanning and JSON validity are computed, not assumed.         *)
(***************************************************************************)
EXTENDS Integers, Sequences, FiniteSets, TLC

(***************************************************************************)
(* Bounds of the model and constants of the program.                       *)
(***************************************************************************)
\* most upstream messages the Controller receives before the stream ends
MaxMsgs == 2
\* make(chan common.LLMResponseStruct, 2)
SentenceChannelCap == 2
\* ExtractSmartSentences(buffer.String(), 2, 100, isFirst)
MinSentenceLen == 2
MaxSentenceLen == 100
\* most model messages the accumulator receives before the model stream ends
MaxFrags == 3
\* schema.Pipe[*schema.Message](100)
ResponsePipeCap == 100
\* most input events Transform receives before its input ends
MaxSentences == 2
\* most frames the synthesis backend produces for one sentence
MaxFrames == 2
\* most calls of Invoke
MaxInvokes == 1
\* schema.Pipe[*schema.StreamReader[types.TtsChunk]](100)
SentenceStreamCap == 100
\* schema.Pipe[types.TtsChunk](100)
AudioStreamCap == 100
\* most calls of the methods of one AudioState
MaxOps == 3
\* goroutines that wait on AudioState.Cond
NumWaiters == 2
\* most EinoLLMProvider instances created
MaxProviders == 2
\* most upstream messages the stream-based controller receives
MaxSsMsgs == 4
\* schema.Pipe[*schema.Message](10)
OutputStreamCap == 10
\* length of a text delta that has no sentence separator
LongLen == 51

\* events the SDK fires in one recognition
MaxSdkEvents == 2

\* chunks the caller puts on audioStream
MaxChunks == 1

\* make(chan types.StreamingResult, 10), microsoft.go:214
ResultChanCap == 10

\* frames the provider produces for one text
MaxFwdFrames == 3

\* make(chan []byte, 10), base.go:252
FwdOutputCap == 10
\* maxTokens := 500
DefaultMaxTokens == 500

(***************************************************************************)
(* Text used as input.                                                     *)
(***************************************************************************)
StrEmpty == << >>
StrHello == <<"H", "e", "l", "l", "o", " ", "w", "o", "r", "l", "d", ".", " ", "H", "o", "w", " ", "a", "r", "e", " ", "y", "o", "u", "?", " ">>
StrHelloWorld == <<"H", "e", "l", "l", "o", " ", "w", "o", "r", "l", "d", ".">>
StrHowAreYou == <<"H", "o", "w", " ", "a", "r", "e", " ", "y", "o", "u", "?">>
StrBye == <<"B", "y", "e">>
StrHi == <<"H", "i", ".">>
StrLong == [i \in 1..LongLen |-> "a"]
ArgsOpen == <<"{", "\"", "a", "\"", ":">>
ArgsClose == <<"1", "}">>
ArgsFull == <<"{", "\"", "a", "\"", ":", "1", "}">>

(***************************************************************************)
(* Sentence segmenter (package internal/util/sentence).                    *)
(***************************************************************************)
SentenceSeparators == {".", "?", "!", ";"}
WhiteSpace == {" ", "\n", "\t"}

RECURSIVE TrimLeft(_)
TrimLeft(s) ==
    IF s = << >> THEN s
    ELSE IF Head(s) \in WhiteSpace THEN TrimLeft(Tail(s)) ELSE s

RECURSIVE TrimRight(_)
TrimRight(s) ==
    IF s = << >> THEN s
    ELSE IF s[Len(s)] \in WhiteSpace THEN TrimRight(SubSeq(s, 1, Len(s) - 1)) ELSE s

TrimSpace(s) == TrimRight(TrimLeft(s))

\* true iff the delta holds a sentence-final punctuation character
ContainsSentenceSeparator(s, isFirst) ==
    \E i \in 1..Len(s) : s[i] \in SentenceSeparators

\* Left-to-right scan.  start: first character after the last confirmed
\* boundary; i: character under the scan; acc: the sentences closed so far.
RECURSIVE ScanSentences(_, _, _, _, _, _, _)
ScanSentences(text, minLen, maxLen, isFirst, start, i, acc) ==
    IF i > Len(text)
    THEN [sentences |-> acc, remaining |-> TrimSpace(SubSeq(text, start, Len(text)))]
    ELSE IF text[i] \in SentenceSeparators
         THEN LET cand   == TrimSpace(SubSeq(text, start, i))
                  accept == \/ Len(cand) >= minLen
                            \/ isFirst /\ acc = << >>
                            \/ i = Len(text) /\ Len(text) > maxLen
              IN  IF accept
                  THEN ScanSentences(text, minLen, maxLen, isFirst, i + 1, i + 1, Append(acc, cand))
                  ELSE ScanSentences(text, minLen, maxLen, isFirst, start, i + 1, acc)
         ELSE ScanSentences(text, minLen, maxLen, isFirst, start, i + 1, acc)

ExtractSmartSentences(text, minLen, maxLen, isFirst) ==
    ScanSentences(text, minLen, maxLen, isFirst, 1, 1, << >>)

(***************************************************************************)
(* isValidJSON, types.go:408-412: json.Unmarshal of the string into a      *)
(* map[string]interface{} returns no error.  That is the case for a JSON   *)
(* object and for the literal null, with white space around it; any other  *)
(* JSON value, and any text that is not JSON, is an error.                 *)
(* Each Parse operator takes the index of the first character of the item  *)
(* and gives the index after the item, or 0 when the item is malformed.    *)
(***************************************************************************)
JSONSpace == {" ", "\t", "\n", "\r"}
Digits == {"0", "1", "2", "3", "4", "5", "6", "7", "8", "9"}

RECURSIVE SkipSpace(_, _)
SkipSpace(s, i) ==
    IF i <= Len(s) /\ s[i] \in JSONSpace THEN SkipSpace(s, i + 1) ELSE i

RECURSIVE SkipDigits(_, _)
SkipDigits(s, i) ==
    IF i <= Len(s) /\ s[i] \in Digits THEN SkipDigits(s, i + 1) ELSE i

\* the text w stands at index i of s
HasWord(s, i, w) ==
    /\ i + Len(w) - 1 <= Len(s)
    /\ SubSeq(s, i, i + Len(w) - 1) = w

\* i is the index after the opening quote
RECURSIVE ParseStringBody(_, _)
ParseStringBody(s, i) ==
    IF i > Len(s) THEN 0
    ELSE IF s[i] = "\"" THEN i + 1
    ELSE IF s[i] = "\\" THEN (IF i + 1 > Len(s) THEN 0 ELSE ParseStringBody(s, i + 2))
    ELSE ParseStringBody(s, i + 1)

ParseString(s, i) ==
    IF i <= Len(s) /\ s[i] = "\"" THEN ParseStringBody(s, i + 1) ELSE 0

ParseNumber(s, i) ==
    LET d == IF i <= Len(s) /\ s[i] = "-" THEN i + 1 ELSE i
        e == IF d <= Len(s) /\ s[d] = "0" THEN d + 1 ELSE SkipDigits(s, d)
    IN  IF e = d THEN 0
        ELSE IF e <= Len(s) /\ s[e] = "."
             THEN (IF SkipDigits(s, e + 1) = e + 1 THEN 0 ELSE SkipDigits(s, e + 1))
             ELSE e

RECURSIVE ParseValue(_, _)
RECURSIVE ParseMembers(_, _)
RECURSIVE ParseElements(_, _)

\* i is the index of the key of the next member
ParseMembers(s, i) ==
    LET k == ParseString(s, i)
        c == SkipSpace(s, k)
        v == IF k = 0 \/ c > Len(s) \/ s[c] # ":" THEN 0
             ELSE ParseValue(s, SkipSpace(s, c + 1))
        n == SkipSpace(s, v)
    IN  IF v = 0 \/ n > Len(s) THEN 0
        ELSE IF s[n] = "}" THEN n + 1
        ELSE IF s[n] = "," THEN ParseMembers(s, SkipSpace(s, n + 1))
        ELSE 0

ParseObject(s, i) ==
    LET j == SkipSpace(s, i + 1)
    IN  IF j > Len(s) THEN 0
        ELSE IF s[j] = "}" THEN j + 1
        ELSE ParseMembers(s, j)

\* i is the index of the next element
ParseElements(s, i) ==
    LET v == ParseValue(s, i)
        n == SkipSpace(s, v)
    IN  IF v = 0 \/ n > Len(s) THEN 0
        ELSE IF s[n] = "]" THEN n + 1
        ELSE IF s[n] = "," THEN ParseElements(s, SkipSpace(s, n + 1))
        ELSE 0

ParseArray(s, i) ==
    LET j == SkipSpace(s, i + 1)
    IN  IF j > Len(s) THEN 0
        ELSE IF s[j] = "]" THEN j + 1
        ELSE ParseElements(s, j)

ParseValue(s, i) ==
    IF i > Len(s) THEN 0
    ELSE IF s[i] = "{" THEN ParseObject(s, i)
    ELSE IF s[i] = "[" THEN ParseArray(s, i)
    ELSE IF s[i] = "\"" THEN ParseString(s, i)
    ELSE IF s[i] \in Digits \cup {"-"} THEN ParseNumber(s, i)
    ELSE IF HasWord(s, i, <<"t", "r", "u", "e">>) THEN i + 4
    ELSE IF HasWord(s, i, <<"f", "a", "l", "s", "e">>) THEN i + 5
    ELSE IF HasWord(s, i, <<"n", "u", "l", "l">>) THEN i + 4
    ELSE 0

isValidJSON(str) ==
    LET i == SkipSpace(str, 1)
        e == IF i <= Len(str) /\ (str[i] = "{" \/ HasWord(str, i, <<"n", "u", "l", "l">>))
             THEN ParseValue(str, i)
             ELSE 0
    IN  e # 0 /\ SkipSpace(str, e) = Len(str) + 1

(***************************************************************************)
(* Messages and events.                                                    *)
(***************************************************************************)
\* schema.ToolCall, reduced to its Function.Name and Function.Arguments
ToolCall(name, arguments) == [Name |-> name, Arguments |-> arguments]
ToolX == ToolCall("X", ArgsFull)

\* schema.Message, reduced to Content and ToolCalls
Message(content, toolCalls) == [Content |-> content, ToolCalls |-> toolCalls]

\* common.LLMResponseStruct
LLMResponseStruct(text, isStart, isEnd, toolCalls) ==
    [Text |-> text, IsStart |-> isStart, IsEnd |-> isEnd, ToolCalls |-> toolCalls]

NoMessage == Message(StrEmpty, << >>)

Contents == {StrEmpty, StrBye, StrHi, StrHello, StrLong}
CtlMessages == {Message(c, t) : c \in Contents, t \in {<< >>, <<ToolX>>}}

\* what the chat model streams into the accumulator: text, tool-call
\* fragments (named or continuation), or both in one message
FragmentNames == {"", "X", "Y"}
FragmentArgs == {ArgsOpen, ArgsClose, ArgsFull}
Fragments == {ToolCall(n, a) : n \in FragmentNames, a \in FragmentArgs}
AccMessages ==
    {Message(c, t) : c \in {StrEmpty, StrHi}, t \in {<< >>} \cup {<<f>> : f \in Fragments}}

VARIABLES
    \* ---- Controller (llm.go) ----
    ctxDone,          \* ctx.Done() is closed
    pc,               \* position of the worker goroutine
    recvLog,          \* the messages Recv has returned so far, in order
    term,             \* how the upstream ended: "none", "EOF", "Err", "Nil"
    message,          \* the message under processing
    buffer,           \* bytes.Buffer
    fullText,
    isFirst,
    firstFrame,
    sentences,        \* the sentences of the running range loop not yet sent
    remaining,        \* remaining of ExtractSmartSentences / of the EOF flush
    sentenceChannel,  \* the events buffered in the channel
    chClosed,         \* the channel is closed
    closeCount,       \* how many times close(sentenceChannel) ran
    panicked,         \* a send on, or a close of, a closed channel
    sentLog,          \* every event sent, with the delta it comes from (the EOF flush: one past the last delta)
    exitPath,         \* the statement the worker left by, "none" while it runs
    cancelPc,         \* where the worker stood when ctx was cancelled, "none" before
    \* ---- tool-call accumulator (types.go) ----
    accPc,              \* "start", "loop" or "done"
    accLog,             \* the messages streamReader.Recv has returned, in order
    accTerm,            \* how the run ended: "none", "EOF", "Err", "NoStream"
    currentToolCall,    \* << >> for nil, <<tc>> for a pointer to tc
    toolCallBuffer,
    isToolCallComplete,
    respStream,         \* every message sent on responseStreamWriter, in order
    respClosed,         \* responseStreamWriter.Close() has run
    respCloseCount,
    \* ---- TTS adapter (tts/base.go) ----
    ttsCtxDone,         \* ctx.Done() of Transform is closed
    ttsPc,              \* position of the Transform goroutine
    ttsRecvLog,         \* Content of the messages input.Recv has returned, in order
    ttsTerm,            \* how the input ended: "none", "EOF", "Err"
    hasStartCb,         \* options.TtsChunkStartCallback != nil
    hasEndCb,           \* options.TtsChunkEndCallback != nil
    startCalls,         \* calls of the start callback
    endCalls,           \* calls of the end callback
    outer,              \* the sub-streams sent on sentenceStreamWriter, in order
    outerClosed,        \* sentenceStreamWriter.Close() has run
    outerCloseCount,
    outerReaderClosed,  \* the consumer closed sentenceStreamReader
    subs,               \* the audio pipes created, one for each message received
    synthLog,           \* the calls of TextToSpeechStream, in order
    outputChan,         \* the frames the backend has still to deliver
    frame,              \* the frame the range loop holds
    ttsExit,            \* the statement the goroutine left by, "none" while it runs
    invokes,            \* calls of Invoke so far
    \* ---- AudioState (package client) ----
    audState,           \* a.State
    audCtx,             \* a.Ctx: the number of the context, 0 for nil
    audCancel,          \* a.Cancel: the number of the context it cancels, 0 for nil
    audCancelled,       \* the contexts that have been cancelled
    audNextCtx,         \* the number the next new context gets
    audPanicked,        \* a call has panicked
    audBroadcasts,      \* calls of a.Cond.Broadcast()
    audOps,             \* calls of the methods so far
    audLastOp,          \* the method called last
    audLastRet,         \* what it returned
    audLocked,          \* the method called last held a.Lock while it used the fields
    wpc,                \* position of each waiting goroutine
    awaiting,           \* the State each waiter waits to see replaced
    \* ---- EinoLLMProvider construction (common/types.go) ----
    provConfig,         \* the config map given to NewEinoLLMProvider
    providers,          \* the EinoLLMProvider instances; a pointer is an index, 0 is nil
    provLast,           \* the last call: its receiver, argument and results
    \* ---- stream-based controller (package stream_sentence) ----
    ssCtxDone,          \* ctx.Done() is closed
    ssPc,               \* position of the worker
    ssRecvLog,          \* the messages input.Recv has returned, in order
    ssTerm,             \* how the input ended: "none", "EOF", "Err", "Nil"
    ssMessage,          \* message
    ssBuffer,           \* buffer
    ssFullText,         \* fullText
    ssIsFirst,          \* isFirst
    ssFirstFrame,       \* firstFrame
    ssSentences,        \* the sentences of the range loop still to send
    ssRemaining,        \* remaining
    outputStream,       \* the items buffered in the output pipe
    ssWriterClosed,     \* outputStreamWriter.Close() has run
    ssCloseCount,
    ssReaderClosed,     \* the consumer closed outputStreamerReader
    ssSentLog,          \* the calls of Send that returned, in order
    ssExit,             \* the statement the worker left by, "none" while it runs
    \* ---- Microsoft ASR (StreamingRecognize) ----
    asrCtxDone,         \* ctx.Done() is closed
    sdkPc,              \* position of the callback the SDK thread is running, or "idle"
    sdkEvents,          \* events the SDK has fired
    pushPc,             \* position of the audio-push goroutine
    chunksPushed,       \* chunks read from audioStream
    audioStreamClosed,  \* the caller closed audioStream
    cleanupPc,          \* position of the cleanup goroutine
    recognizerClosed,   \* recognizer.Close() has run
    sessionStopped,     \* the channel sessionStopped is closed
    sessionStoppedCloses, \* calls of close(sessionStopped)
    resultChan,         \* the results buffered in resultChan
    resultChanClosed,   \* resultChan is closed
    resultChanCloses,   \* calls of close(resultChan)
    asrPanic,           \* the panic that ended the process, or "none"
    \* ---- TextToSpeechStreamWithContext forwarding goroutine ----
    fwdCtxDone,         \* ctx.Done() is closed
    fwdPc,              \* position of the goroutine
    streamChan,         \* the frames buffered in the provider's channel
    streamChanClosed,   \* the provider closed streamChan
    framesProduced,     \* frames the provider has produced
    fwdFrame,           \* frame
    fwdOutputChan,      \* the frames buffered in outputChan
    fwdOutputClosed,    \* outputChan is closed
    fwdOutputCloses,    \* calls of close(outputChan)
    fwdDelivered,       \* the frames the caller has taken off outputChan
    fwdPanicked         \* the goroutine panicked

ctlVars == <<ctxDone, pc, recvLog, term, message, buffer, fullText, isFirst,
             firstFrame, sentences, remaining, sentenceChannel, chClosed,
             closeCount, panicked, sentLog, exitPath, cancelPc>>

accVars == <<accPc, accLog, accTerm, currentToolCall, toolCallBuffer,
             isToolCallComplete, respStream, respClosed, respCloseCount>>

ttsVars == <<ttsCtxDone, ttsPc, ttsRecvLog, ttsTerm, hasStartCb, hasEndCb, startCalls,
             endCalls, outer, outerClosed, outerCloseCount, outerReaderClosed, subs,
             synthLog, outputChan, frame, ttsExit, invokes>>

audVars == <<audState, audCtx, audCancel, audCancelled, audNextCtx, audPanicked,
             audBroadcasts, audOps, audLastOp, audLastRet, audLocked, wpc, awaiting>>

provVars == <<provConfig, providers, provLast>>

ssVars == <<ssCtxDone, ssPc, ssRecvLog, ssTerm, ssMessage, ssBuffer, ssFullText, ssIsFirst,
            ssFirstFrame, ssSentences, ssRemaining, outputStream, ssWriterClosed,
            ssCloseCount, ssReaderClosed, ssSentLog, ssExit>>

asrVars == <<asrCtxDone, sdkPc, sdkEvents, pushPc, chunksPushed, audioStreamClosed, cleanupPc,
             recognizerClosed, sessionStopped, sessionStoppedCloses, resultChan,
             resultChanClosed, resultChanCloses, asrPanic>>

fwdVars == <<fwdCtxDone, fwdPc, streamChan, streamChanClosed, framesProduced, fwdFrame,
             fwdOutputChan, fwdOutputClosed, fwdOutputCloses, fwdDelivered, fwdPanicked>>

vars == <<ctlVars, accVars, ttsVars, audVars, provVars, ssVars, asrVars, fwdVars>>

\* what an action of one component leaves alone: the other components
ctlOthers == <<accVars, ttsVars, audVars, provVars, ssVars, asrVars, fwdVars>>
accOthers == <<ctlVars, ttsVars, audVars, provVars, ssVars, asrVars, fwdVars>>
ttsOthers == <<ctlVars, accVars, audVars, provVars, ssVars, asrVars, fwdVars>>
audOthers == <<ctlVars, accVars, ttsVars, provVars, ssVars, asrVars, fwdVars>>
provOthers == <<ctlVars, accVars, ttsVars, audVars, ssVars, asrVars, fwdVars>>
ssOthers == <<ctlVars, accVars, ttsVars, audVars, provVars, asrVars, fwdVars>>
asrOthers == <<ctlVars, accVars, ttsVars, audVars, provVars, ssVars, fwdVars>>
fwdOthers == <<ctlVars, accVars, ttsVars, audVars, provVars, ssVars, asrVars>>

(***************************************************************************)
(* Controller: HandleLLMWithContextAndTools, llm.go:18-143.                *)
(***************************************************************************)
CtlInit ==
    /\ ctxDone = FALSE
    /\ pc = "top"
    /\ recvLog = << >>
    /\ term = "none"
    /\ message = NoMessage
    /\ buffer = StrEmpty
    /\ fullText = StrEmpty
    /\ isFirst = TRUE
    /\ firstFrame = FALSE
    /\ sentences = << >>
    /\ remaining = StrEmpty
    /\ sentenceChannel = << >>
    /\ chClosed = FALSE
    /\ closeCount = 0
    /\ panicked = FALSE
    /\ sentLog = << >>
    /\ exitPath = "none"
    /\ cancelPc = "none"

\* the deferred close left out
DeferClose_Missing ==
    /\ pc' = "done"
    /\ UNCHANGED <<chClosed, closeCount, panicked>>

\* defer func() { close(sentenceChannel) }(): runs when the goroutine returns
DeferClose ==
    /\ pc' = "done"
    /\ chClosed' = TRUE
    /\ closeCount' = closeCount + 1
    /\ panicked' = (panicked \/ chClosed)

\* the worker returns (or breaks out of the loop) by path and sends nothing
ReturnNoSend(path) ==
    /\ DeferClose
    /\ exitPath' = path
    /\ UNCHANGED <<sentenceChannel, sentLog>>

\* a select without the ctx.Done() case
CtxDoneCase_Never == FALSE

\* case <-ctx.Done(): of a select is ready
CtxDoneCase == ctxDone

\* a send on a channel without a capacity
ChanSend_Unbounded(ev, src) ==
    /\ sentenceChannel' = Append(sentenceChannel, ev)
    /\ sentLog' = Append(sentLog, [ev |-> ev, src |-> src])

\* case sentenceChannel <- ev: of a select; src is the delta ev comes from
ChanSend(ev, src) ==
    /\ Len(sentenceChannel) < SentenceChannelCap
    /\ sentenceChannel' = Append(sentenceChannel, ev)
    /\ sentLog' = Append(sentLog, [ev |-> ev, src |-> src])

\* the range loop taking the sentences from the far end
NextSentence_Last(ss) == ss[Len(ss)]

\* for _, sentence := range sentences, llm.go:94
NextSentence(ss) == Head(ss)

\* the tool calls of the message left unsent
AfterContent_NoTool(m) == "top"

\* where the loop body goes once the text of the message is dealt with
AfterContent(m) ==
    IF Len(m.ToolCalls) > 0 THEN "sendToolCalls" ELSE "top"

\* the final event without the remainder
EndEvent_NoText(text) == LLMResponseStruct(StrEmpty, FALSE, TRUE, << >>)

\* the final event not marked as the end
EndEvent_NotEnd(text) == LLMResponseStruct(text, FALSE, FALSE, << >>)

\* the event of the EOF flush, llm.go:63-66 and 74-77
EndEvent(text) == LLMResponseStruct(text, FALSE, TRUE, << >>)

\* a sentence event marked as the end
SentenceEvent_End(sentence, first) == LLMResponseStruct(sentence, first, TRUE, << >>)

\* the event of one extracted sentence, llm.go:105-109
SentenceEvent(sentence, first) == LLMResponseStruct(sentence, first, FALSE, << >>)

\* the event of a tool-call message, llm.go:132-136
ToolCallEvent(toolCalls, first) == LLMResponseStruct(StrEmpty, first, FALSE, toolCalls)

\* llm.go:46-51: select { case <-ctx.Done(): return; default: }
LoopTop ==
    /\ pc = "top"
    /\ \/ /\ CtxDoneCase
          /\ ReturnNoSend("cancelTop")
       \/ /\ ~CtxDoneCase
          /\ pc' = "recv"
          /\ UNCHANGED <<sentenceChannel, sentLog, chClosed, closeCount, panicked, exitPath>>
    /\ UNCHANGED <<cancelPc, ctxDone, recvLog, term, message, buffer, fullText, isFirst,
                   firstFrame, sentences, remaining>>
    /\ UNCHANGED ctlOthers

\* llm.go:52-80: Recv returns io.EOF
RecvEOF ==
    /\ pc = "recv"
    /\ term' = "EOF"
    /\ remaining' = buffer
    /\ fullText' = fullText \o buffer
    /\ pc' = "sendEnd"
    /\ UNCHANGED <<exitPath, cancelPc, ctxDone, recvLog, message, buffer, isFirst, firstFrame, sentences,
                   sentenceChannel, chClosed, closeCount, panicked, sentLog>>
    /\ UNCHANGED ctlOthers

\* a non-EOF error handled as EOF is: the remainder is flushed
RecvError_Flush ==
    /\ pc = "recv"
    /\ term' = "Err"
    /\ remaining' = buffer
    /\ fullText' = fullText \o buffer
    /\ pc' = "sendEnd"
    /\ UNCHANGED <<exitPath, cancelPc, ctxDone, recvLog, message, buffer, isFirst, firstFrame,
                   sentences, sentenceChannel, chClosed, closeCount, panicked, sentLog>>
    /\ UNCHANGED ctlOthers

\* llm.go:53,82-85: Recv returns an error that is not io.EOF, with no message
RecvError ==
    /\ pc = "recv"
    /\ term' = "Err"
    /\ ReturnNoSend("error")
    /\ UNCHANGED <<cancelPc, ctxDone, recvLog, message, buffer, fullText, isFirst, firstFrame,
                   sentences, remaining>>
    /\ UNCHANGED ctlOthers

\* llm.go:83-85: Recv returns a nil message and no error
RecvNil ==
    /\ pc = "recv"
    /\ term' = "Nil"
    /\ ReturnNoSend("nilMessage")
    /\ UNCHANGED <<cancelPc, ctxDone, recvLog, message, buffer, fullText, isFirst, firstFrame,
                   sentences, remaining>>
    /\ UNCHANGED ctlOthers

\* llm.go:86-124: Recv returns message m
RecvMessage(m) ==
    /\ pc = "recv"
    /\ Len(recvLog) < MaxMsgs
    /\ recvLog' = Append(recvLog, m)
    /\ message' = m
    /\ fullText' = fullText \o m.Content
    /\ IF m.Content # StrEmpty /\ ContainsSentenceSeparator(m.Content, isFirst)
       THEN LET r  == ExtractSmartSentences(buffer \o m.Content, MinSentenceLen,
                                            MaxSentenceLen, isFirst)
                ss == SelectSeq(r.sentences, LAMBDA s : s # StrEmpty)
            IN  /\ remaining' = r.remaining
                /\ sentences' = ss
                /\ IF ss # << >>
                   THEN /\ buffer' = buffer \o m.Content
                        /\ firstFrame' = TRUE
                        /\ pc' = "sendSentence"
                        /\ UNCHANGED isFirst
                   ELSE /\ buffer' = r.remaining
                        /\ isFirst' = FALSE
                        /\ pc' = AfterContent(m)
                        /\ UNCHANGED firstFrame
       ELSE /\ buffer' = buffer \o m.Content
            /\ pc' = AfterContent(m)
            /\ UNCHANGED <<isFirst, firstFrame, sentences, remaining>>
    /\ UNCHANGED <<ctxDone, term, sentenceChannel, chClosed, closeCount, panicked, sentLog,
                   exitPath, cancelPc>>
    /\ UNCHANGED ctlOthers

\* llm.go:101-122: the select of the range loop over sentences
SendSentence ==
    /\ pc = "sendSentence"
    /\ \/ /\ CtxDoneCase
          /\ ReturnNoSend("cancelSentence")
          /\ UNCHANGED <<sentences, buffer, isFirst>>
       \/ /\ ChanSend(SentenceEvent(NextSentence(sentences), isFirst), Len(recvLog))
          /\ sentences' = Tail(sentences)
          /\ isFirst' = FALSE
          /\ IF Tail(sentences) = << >>
             THEN /\ buffer' = remaining
                  /\ pc' = AfterContent(message)
             ELSE /\ pc' = "sendSentence"
                  /\ UNCHANGED buffer
          /\ UNCHANGED <<chClosed, closeCount, panicked, exitPath>>
    /\ UNCHANGED <<cancelPc, ctxDone, recvLog, term, message, fullText, firstFrame, remaining>>
    /\ UNCHANGED ctlOthers

\* llm.go:126-138: the select that sends the tool calls of the message
SendToolCalls ==
    /\ pc = "sendToolCalls"
    /\ \/ /\ CtxDoneCase
          /\ ReturnNoSend("cancelToolCalls")
       \/ /\ ChanSend(ToolCallEvent(message.ToolCalls, isFirst), Len(recvLog))
          /\ pc' = "top"
          /\ UNCHANGED <<chClosed, closeCount, panicked, exitPath>>
    /\ UNCHANGED <<cancelPc, ctxDone, recvLog, term, message, buffer, fullText, isFirst,
                   firstFrame, sentences, remaining>>
    /\ UNCHANGED ctlOthers

\* llm.go:55-80: the select that sends the final event, then return
SendEnd ==
    /\ pc = "sendEnd"
    /\ \/ /\ CtxDoneCase
          /\ ReturnNoSend("cancelEnd")
       \/ /\ ChanSend(EndEvent(remaining), Len(recvLog) + 1)
          /\ DeferClose
          /\ exitPath' = "eof"
    /\ UNCHANGED <<cancelPc, ctxDone, recvLog, term, message, buffer, fullText, isFirst,
                   firstFrame, sentences, remaining>>
    /\ UNCHANGED ctlOthers

\* the consumer takes one event off the channel
Receive ==
    /\ sentenceChannel # << >>
    /\ sentenceChannel' = Tail(sentenceChannel)
    /\ UNCHANGED <<ctxDone, pc, recvLog, term, message, buffer, fullText, isFirst,
                   firstFrame, sentences, remaining, chClosed, closeCount, panicked,
                   sentLog, exitPath, cancelPc>>
    /\ UNCHANGED ctlOthers

\* the caller cancels ctx
Cancel ==
    /\ ~ctxDone
    /\ ctxDone' = TRUE
    /\ cancelPc' = pc
    /\ UNCHANGED <<exitPath, pc, recvLog, term, message, buffer, fullText, isFirst, firstFrame,
                   sentences, remaining, sentenceChannel, chClosed, closeCount,
                   panicked, sentLog>>
    /\ UNCHANGED ctlOthers

(***************************************************************************)
(* Tool-call accumulator: EinoResponseWithTools, types.go:317-406.         *)
(***************************************************************************)
AccInit ==
    /\ accPc = "start"
    /\ accLog = << >>
    /\ accTerm = "none"
    /\ currentToolCall = << >>
    /\ toolCallBuffer = StrEmpty
    /\ isToolCallComplete = FALSE
    /\ respStream = << >>
    /\ respClosed = FALSE
    /\ respCloseCount = 0

\* defer responseStreamWriter.Close(), types.go:321
AccDeferClose ==
    /\ accPc' = "done"
    /\ respClosed' = TRUE
    /\ respCloseCount' = respCloseCount + 1

\* responseStreamWriter.Send(msg, nil) on the pipe of capacity 100
RespSend(stream, msg) ==
    IF Len(stream) < ResponsePipeCap THEN Append(stream, msg) ELSE stream

\* the message of a completed call without its arguments
CompleteMessage_NoArgs(toolCall) == Message(StrEmpty, <<ToolCall(toolCall.Name, StrEmpty)>>)

\* types.go:346-349 and 382-385
CompleteMessage(toolCall) == Message(StrEmpty, <<toolCall>>)

\* the buffer overwritten by the fragment instead of extended
AccumulateArguments_Overwrite(buf, arguments) == arguments

\* types.go:371: toolCallBuffer += toolCall.Function.Arguments
AccumulateArguments(buf, arguments) == buf \o arguments

\* types.go:326-330 and 332: Stream fails, or returns no reader
AccStreamUnavailable ==
    /\ accPc = "start"
    /\ accTerm' = "NoStream"
    /\ AccDeferClose
    /\ UNCHANGED <<accLog, currentToolCall, toolCallBuffer, isToolCallComplete, respStream>>
    /\ UNCHANGED accOthers

\* types.go:326-339: Stream returns a reader
AccStreamOpen ==
    /\ accPc = "start"
    /\ accPc' = "loop"
    /\ UNCHANGED <<accLog, accTerm, currentToolCall, toolCallBuffer, isToolCallComplete,
                   respStream, respClosed, respCloseCount>>
    /\ UNCHANGED accOthers

\* types.go:343-353: Recv returns io.EOF
AccRecvEOF ==
    /\ accPc = "loop"
    /\ accTerm' = "EOF"
    /\ respStream' = IF currentToolCall # << >>
                     THEN RespSend(respStream, CompleteMessage(currentToolCall[1]))
                     ELSE respStream
    /\ AccDeferClose
    /\ UNCHANGED <<accLog, currentToolCall, toolCallBuffer, isToolCallComplete>>
    /\ UNCHANGED accOthers

\* types.go:354-357: Recv returns another error
AccRecvError ==
    /\ accPc = "loop"
    /\ accTerm' = "Err"
    /\ AccDeferClose
    /\ UNCHANGED <<accLog, currentToolCall, toolCallBuffer, isToolCallComplete, respStream>>
    /\ UNCHANGED accOthers

\* AccRecvMessage where a named fragment keeps the arguments accumulated before it
AccRecvMessage_KeepBuffer(m) ==
    /\ accPc = "loop"
    /\ Len(accLog) < MaxFrags
    /\ accLog' = Append(accLog, m)
    /\ IF Len(m.ToolCalls) > 0
       THEN LET toolCall == m.ToolCalls[1]
                named    == toolCall.Name # ""
                cont     == ~named /\ currentToolCall # << >>
                buf      == IF named THEN toolCallBuffer \o toolCall.Arguments
                            ELSE IF cont
                                 THEN AccumulateArguments(toolCallBuffer, toolCall.Arguments)
                                 ELSE toolCallBuffer
                cur      == IF named THEN <<toolCall>>
                            ELSE IF cont
                                 THEN <<[currentToolCall[1] EXCEPT !.Arguments = buf]>>
                                 ELSE currentToolCall
                complete == IF named THEN FALSE
                            ELSE IF cont /\ isValidJSON(buf) THEN TRUE
                            ELSE isToolCallComplete
            IN  IF complete
                THEN /\ respStream' = RespSend(respStream, CompleteMessage(cur[1]))
                     /\ currentToolCall' = << >>
                     /\ toolCallBuffer' = StrEmpty
                     /\ isToolCallComplete' = FALSE
                ELSE /\ currentToolCall' = cur
                     /\ toolCallBuffer' = buf
                     /\ isToolCallComplete' = complete
                     /\ UNCHANGED respStream
       ELSE /\ respStream' = IF m.Content # StrEmpty
                             THEN RespSend(respStream, Message(m.Content, << >>))
                             ELSE respStream
            /\ UNCHANGED <<currentToolCall, toolCallBuffer, isToolCallComplete>>
    /\ UNCHANGED <<accPc, accTerm, respClosed, respCloseCount>>
    /\ UNCHANGED accOthers

\* AccRecvMessage that forwards text only while no call is pending
AccRecvMessage_TextDropped(m) ==
    /\ accPc = "loop"
    /\ Len(accLog) < MaxFrags
    /\ accLog' = Append(accLog, m)
    /\ IF Len(m.ToolCalls) > 0
       THEN LET toolCall == m.ToolCalls[1]
                named    == toolCall.Name # ""
                cont     == ~named /\ currentToolCall # << >>
                buf      == IF named THEN toolCall.Arguments
                            ELSE IF cont
                                 THEN AccumulateArguments(toolCallBuffer, toolCall.Arguments)
                                 ELSE toolCallBuffer
                cur      == IF named THEN <<toolCall>>
                            ELSE IF cont
                                 THEN <<[currentToolCall[1] EXCEPT !.Arguments = buf]>>
                                 ELSE currentToolCall
                complete == IF named THEN FALSE
                            ELSE IF cont /\ isValidJSON(buf) THEN TRUE
                            ELSE isToolCallComplete
            IN  IF complete
                THEN /\ respStream' = RespSend(respStream, CompleteMessage(cur[1]))
                     /\ currentToolCall' = << >>
                     /\ toolCallBuffer' = StrEmpty
                     /\ isToolCallComplete' = FALSE
                ELSE /\ currentToolCall' = cur
                     /\ toolCallBuffer' = buf
                     /\ isToolCallComplete' = complete
                     /\ UNCHANGED respStream
       ELSE /\ respStream' = IF m.Content # StrEmpty /\ currentToolCall = << >>
                             THEN RespSend(respStream, Message(m.Content, << >>))
                             ELSE respStream
            /\ UNCHANGED <<currentToolCall, toolCallBuffer, isToolCallComplete>>
    /\ UNCHANGED <<accPc, accTerm, respClosed, respCloseCount>>
    /\ UNCHANGED accOthers

\* types.go:359-398: Recv returns message m
AccRecvMessage(m) ==
    /\ accPc = "loop"
    /\ Len(accLog) < MaxFrags
    /\ accLog' = Append(accLog, m)
    /\ IF Len(m.ToolCalls) > 0
       THEN LET toolCall == m.ToolCalls[1]
                named    == toolCall.Name # ""
                cont     == ~named /\ currentToolCall # << >>
                buf      == IF named THEN toolCall.Arguments
                            ELSE IF cont
                                 THEN AccumulateArguments(toolCallBuffer, toolCall.Arguments)
                                 ELSE toolCallBuffer
                cur      == IF named THEN <<toolCall>>
                            ELSE IF cont
                                 THEN <<[currentToolCall[1] EXCEPT !.Arguments = buf]>>
                                 ELSE currentToolCall
                complete == IF named THEN FALSE
                            ELSE IF cont /\ isValidJSON(buf) THEN TRUE
                            ELSE isToolCallComplete
            IN  IF complete
                THEN /\ respStream' = RespSend(respStream, CompleteMessage(cur[1]))
                     /\ currentToolCall' = << >>
                     /\ toolCallBuffer' = StrEmpty
                     /\ isToolCallComplete' = FALSE
                ELSE /\ currentToolCall' = cur
                     /\ toolCallBuffer' = buf
                     /\ isToolCallComplete' = complete
                     /\ UNCHANGED respStream
       ELSE /\ respStream' = IF m.Content # StrEmpty
                             THEN RespSend(respStream, Message(m.Content, << >>))
                             ELSE respStream
            /\ UNCHANGED <<currentToolCall, toolCallBuffer, isToolCallComplete>>
    /\ UNCHANGED <<accPc, accTerm, respClosed, respCloseCount>>
    /\ UNCHANGED accOthers

AccRecvAnyMessage == \E m \in AccMessages : AccRecvMessage(m)

AccNext ==
    \/ AccStreamUnavailable
    \/ AccStreamOpen
    \/ AccRecvEOF
    \/ AccRecvError
    \/ AccRecvAnyMessage

(***************************************************************************)
(* TTS adapter: ContextTTSAdapter.Invoke and Transform, tts/base.go:67-185.*)
(***************************************************************************)
\* types.TtsChunk; a nil Data is the empty sequence
TtsChunk(text, data) == [Text |-> text, Data |-> data]
NilData == << >>

\* the i-th frame the backend produces for sentence k
Frame(k, i) == <<k, i>>

SentenceTexts == {StrHi, StrBye}

TtsInit ==
    /\ ttsCtxDone = FALSE
    /\ ttsPc = "top"
    /\ ttsRecvLog = << >>
    /\ ttsTerm = "none"
    /\ hasStartCb \in BOOLEAN
    /\ hasEndCb \in BOOLEAN
    /\ startCalls = 0
    /\ endCalls = 0
    /\ outer = << >>
    /\ outerClosed = FALSE
    /\ outerCloseCount = 0
    /\ outerReaderClosed = FALSE
    /\ subs = << >>
    /\ synthLog = << >>
    /\ outputChan = << >>
    /\ frame = NilData
    /\ ttsExit = "none"
    /\ invokes = 0

\* if options.TtsChunkStartCallback != nil { options.TtsChunkStartCallback() }
StartCallback(n) == IF hasStartCb THEN n + 1 ELSE n

\* if options.TtsChunkEndCallback != nil { options.TtsChunkEndCallback() }
EndCallback(n) == IF hasEndCb THEN n + 1 ELSE n

\* schema.Pipe[types.TtsChunk](100): the pipe of a new sentence
NewAudioStream == [chunks |-> << >>, closeCount |-> 0, readerClosed |-> FALSE]

\* audioStreamWriter.Close() of the sentence under processing
AudioStreamClose(ss) == [ss EXCEPT ![Len(ss)].closeCount = @ + 1]

\* audioStreamWriter.Send(chunk, nil) of the sentence under processing
AudioStreamSend(ss, chunk) == [ss EXCEPT ![Len(ss)].chunks = Append(@, chunk)]

\* the goroutine returns: defer sentenceStreamWriter.Close(), base.go:101
TtsReturn(path) ==
    /\ ttsPc' = "done"
    /\ outerClosed' = TRUE
    /\ outerCloseCount' = outerCloseCount + 1
    /\ ttsExit' = path

\* base.go:67-89: one call of Invoke; ok: TextToSpeech returns no error
Invoke(ok) ==
    /\ invokes < MaxInvokes
    /\ invokes' = invokes + 1
    /\ startCalls' = StartCallback(startCalls)
    /\ endCalls' = EndCallback(endCalls)
    /\ UNCHANGED <<ttsCtxDone, ttsPc, ttsRecvLog, ttsTerm, hasStartCb, hasEndCb, outer,
                   outerClosed, outerCloseCount, outerReaderClosed, subs, synthLog,
                   outputChan, frame, ttsExit>>
    /\ UNCHANGED ttsOthers

\* base.go:103-108: select { case <-ctx.Done(): return; default: }
TtsLoopTop ==
    /\ ttsPc = "top"
    /\ \/ /\ ttsCtxDone
          /\ TtsReturn("cancelTop")
       \/ /\ ~ttsCtxDone
          /\ ttsPc' = "recv"
          /\ UNCHANGED <<outerClosed, outerCloseCount, ttsExit>>
    /\ UNCHANGED <<ttsCtxDone, ttsRecvLog, ttsTerm, hasStartCb, hasEndCb, startCalls,
                   endCalls, outer, outerReaderClosed, subs, synthLog, outputChan, frame,
                   invokes>>
    /\ UNCHANGED ttsOthers

\* base.go:109-113: input.Recv returns io.EOF
TtsRecvEOF ==
    /\ ttsPc = "recv"
    /\ ttsTerm' = "EOF"
    /\ TtsReturn("eof")
    /\ UNCHANGED <<ttsCtxDone, ttsRecvLog, hasStartCb, hasEndCb, startCalls, endCalls,
                   outer, outerReaderClosed, subs, synthLog, outputChan, frame, invokes>>
    /\ UNCHANGED ttsOthers

\* base.go:109-116: input.Recv returns another error
TtsRecvError ==
    /\ ttsPc = "recv"
    /\ ttsTerm' = "Err"
    /\ TtsReturn("inputError")
    /\ UNCHANGED <<ttsCtxDone, ttsRecvLog, hasStartCb, hasEndCb, startCalls, endCalls,
                   outer, outerReaderClosed, subs, synthLog, outputChan, frame, invokes>>
    /\ UNCHANGED ttsOthers

\* base.go:109-125: input.Recv returns a message with Content c; the start
\* callback runs and the audio pipe of the sentence is created
TtsRecvMessage(c) ==
    /\ ttsPc = "recv"
    /\ Len(ttsRecvLog) < MaxSentences
    /\ ttsRecvLog' = Append(ttsRecvLog, c)
    /\ startCalls' = StartCallback(startCalls)
    /\ subs' = Append(subs, NewAudioStream)
    /\ ttsPc' = "sendSub"
    /\ UNCHANGED <<ttsCtxDone, ttsTerm, hasStartCb, hasEndCb, endCalls, outer, outerClosed,
                   outerCloseCount, outerReaderClosed, synthLog, outputChan, frame,
                   ttsExit, invokes>>
    /\ UNCHANGED ttsOthers

\* base.go:128-132: sentenceStreamWriter.Send(audioStreamReader, nil)
TtsSendSub ==
    /\ ttsPc = "sendSub"
    /\ \/ /\ outerReaderClosed
          /\ subs' = AudioStreamClose(subs)
          /\ TtsReturn("outerReaderClosed")
          /\ UNCHANGED outer
       \/ /\ ~outerReaderClosed
          /\ Len(outer) < SentenceStreamCap
          /\ outer' = Append(outer, Len(subs))
          /\ ttsPc' = "sendLabel"
          /\ UNCHANGED <<subs, outerClosed, outerCloseCount, ttsExit>>
    /\ UNCHANGED <<ttsCtxDone, ttsRecvLog, ttsTerm, hasStartCb, hasEndCb, startCalls,
                   endCalls, outerReaderClosed, synthLog, outputChan, frame, invokes>>
    /\ UNCHANGED ttsOthers

\* base.go:135-146: the label chunk, Text = message.Content and Data = nil
TtsSendLabel ==
    /\ ttsPc = "sendLabel"
    /\ \/ /\ subs[Len(subs)].readerClosed
          /\ subs' = AudioStreamClose(subs)
          /\ TtsReturn("labelReaderClosed")
       \/ /\ ~subs[Len(subs)].readerClosed
          /\ Len(subs[Len(subs)].chunks) < AudioStreamCap
          /\ subs' = AudioStreamSend(subs, TtsChunk(ttsRecvLog[Len(ttsRecvLog)], NilData))
          /\ ttsPc' = "synth"
          /\ UNCHANGED <<outerClosed, outerCloseCount, ttsExit>>
    /\ UNCHANGED <<ttsCtxDone, ttsRecvLog, ttsTerm, hasStartCb, hasEndCb, startCalls,
                   endCalls, outer, outerReaderClosed, synthLog, outputChan, frame, invokes>>
    /\ UNCHANGED ttsOthers

\* TtsSynthError that returns without audioStreamWriter.Close()
TtsSynthError_NoClose ==
    /\ ttsPc = "synth"
    /\ synthLog' = Append(synthLog, [sentence |-> Len(subs), ok |-> FALSE, frames |-> 0])
    /\ subs' = subs
    /\ TtsReturn("synthError")
    /\ UNCHANGED <<ttsCtxDone, ttsRecvLog, ttsTerm, hasStartCb, hasEndCb, startCalls,
                   endCalls, outer, outerReaderClosed, outputChan, frame, invokes>>
    /\ UNCHANGED ttsOthers

\* base.go:149-154: p.TextToSpeechStream fails
TtsSynthError ==
    /\ ttsPc = "synth"
    /\ synthLog' = Append(synthLog, [sentence |-> Len(subs), ok |-> FALSE, frames |-> 0])
    /\ subs' = AudioStreamClose(subs)
    /\ TtsReturn("synthError")
    /\ UNCHANGED <<ttsCtxDone, ttsRecvLog, ttsTerm, hasStartCb, hasEndCb, startCalls,
                   endCalls, outer, outerReaderClosed, outputChan, frame, invokes>>
    /\ UNCHANGED ttsOthers

\* base.go:149: p.TextToSpeechStream returns a channel that will carry n frames
TtsSynthOk(n) ==
    /\ ttsPc = "synth"
    /\ synthLog' = Append(synthLog, [sentence |-> Len(subs), ok |-> TRUE, frames |-> n])
    /\ outputChan' = [i \in 1..n |-> Frame(Len(subs), i)]
    /\ ttsPc' = "range"
    /\ UNCHANGED <<ttsCtxDone, ttsRecvLog, ttsTerm, hasStartCb, hasEndCb, startCalls,
                   endCalls, outer, outerClosed, outerCloseCount, outerReaderClosed, subs,
                   frame, ttsExit, invokes>>
    /\ UNCHANGED ttsOthers

\* TtsRangeFrame without the ctx.Done() case of its select
TtsRangeFrame_NoCheck ==
    /\ ttsPc = "range"
    /\ outputChan # << >>
    /\ frame' = Head(outputChan)
    /\ outputChan' = Tail(outputChan)
    /\ \/ /\ ttsCtxDone
          /\ subs' = AudioStreamClose(subs)
          /\ TtsReturn("cancelFrame")
       \/ /\ ~ttsCtxDone
          /\ FALSE
       \/ /\ ttsPc' = "sendFrame"
          /\ UNCHANGED <<subs, outerClosed, outerCloseCount, ttsExit>>
    /\ UNCHANGED <<ttsCtxDone, ttsRecvLog, ttsTerm, hasStartCb, hasEndCb, startCalls,
                   endCalls, outer, outerReaderClosed, synthLog, invokes>>
    /\ UNCHANGED ttsOthers

\* base.go:157-164: the range loop receives a frame and checks ctx.Done()
TtsRangeFrame ==
    /\ ttsPc = "range"
    /\ outputChan # << >>
    /\ frame' = Head(outputChan)
    /\ outputChan' = Tail(outputChan)
    /\ \/ /\ ttsCtxDone
          /\ subs' = AudioStreamClose(subs)
          /\ TtsReturn("cancelFrame")
       \/ /\ ~ttsCtxDone
          /\ ttsPc' = "sendFrame"
          /\ UNCHANGED <<subs, outerClosed, outerCloseCount, ttsExit>>
    /\ UNCHANGED <<ttsCtxDone, ttsRecvLog, ttsTerm, hasStartCb, hasEndCb, startCalls,
                   endCalls, outer, outerReaderClosed, synthLog, invokes>>
    /\ UNCHANGED ttsOthers

\* TtsSendFrame with the sentence text in each frame chunk
TtsSendFrame_WithText ==
    /\ ttsPc = "sendFrame"
    /\ \/ /\ subs[Len(subs)].readerClosed
          /\ subs' = AudioStreamClose(subs)
          /\ TtsReturn("frameReaderClosed")
       \/ /\ ~subs[Len(subs)].readerClosed
          /\ Len(subs[Len(subs)].chunks) < AudioStreamCap
          /\ subs' = AudioStreamSend(subs, TtsChunk(ttsRecvLog[Len(ttsRecvLog)], frame))
          /\ ttsPc' = "range"
          /\ UNCHANGED <<outerClosed, outerCloseCount, ttsExit>>
    /\ UNCHANGED <<ttsCtxDone, ttsRecvLog, ttsTerm, hasStartCb, hasEndCb, startCalls,
                   endCalls, outer, outerReaderClosed, synthLog, outputChan, frame, invokes>>
    /\ UNCHANGED ttsOthers

\* base.go:165-173: the frame chunk, Text = "" and Data = frame
TtsSendFrame ==
    /\ ttsPc = "sendFrame"
    /\ \/ /\ subs[Len(subs)].readerClosed
          /\ subs' = AudioStreamClose(subs)
          /\ TtsReturn("frameReaderClosed")
       \/ /\ ~subs[Len(subs)].readerClosed
          /\ Len(subs[Len(subs)].chunks) < AudioStreamCap
          /\ subs' = AudioStreamSend(subs, TtsChunk(StrEmpty, frame))
          /\ ttsPc' = "range"
          /\ UNCHANGED <<outerClosed, outerCloseCount, ttsExit>>
    /\ UNCHANGED <<ttsCtxDone, ttsRecvLog, ttsTerm, hasStartCb, hasEndCb, startCalls,
                   endCalls, outer, outerReaderClosed, synthLog, outputChan, frame, invokes>>
    /\ UNCHANGED ttsOthers

\* TtsRangeEnd without audioStreamWriter.Close()
TtsRangeEnd_NoClose ==
    /\ ttsPc = "range"
    /\ outputChan = << >>
    /\ subs' = subs
    /\ endCalls' = EndCallback(endCalls)
    /\ ttsPc' = "top"
    /\ UNCHANGED <<ttsCtxDone, ttsRecvLog, ttsTerm, hasStartCb, hasEndCb, startCalls,
                   outer, outerClosed, outerCloseCount, outerReaderClosed, synthLog,
                   outputChan, frame, ttsExit, invokes>>
    /\ UNCHANGED ttsOthers

\* base.go:157,176-181: outputChan is closed and drained; the sentence is
\* finished: close its pipe, run the end callback, go round the loop
TtsRangeEnd ==
    /\ ttsPc = "range"
    /\ outputChan = << >>
    /\ subs' = AudioStreamClose(subs)
    /\ endCalls' = EndCallback(endCalls)
    /\ ttsPc' = "top"
    /\ UNCHANGED <<ttsCtxDone, ttsRecvLog, ttsTerm, hasStartCb, hasEndCb, startCalls,
                   outer, outerClosed, outerCloseCount, outerReaderClosed, synthLog,
                   outputChan, frame, ttsExit, invokes>>
    /\ UNCHANGED ttsOthers

\* the backend, which got ctx, stops on cancellation: it closes its channel
\* without the frames it has not delivered yet
BackendStop ==
    /\ ttsCtxDone
    /\ ttsPc \in {"range", "sendFrame"}
    /\ outputChan # << >>
    /\ outputChan' = << >>
    /\ synthLog' = [synthLog EXCEPT ![Len(synthLog)].frames = @ - Len(outputChan)]
    /\ UNCHANGED <<ttsCtxDone, ttsPc, ttsRecvLog, ttsTerm, hasStartCb, hasEndCb, startCalls,
                   endCalls, outer, outerClosed, outerCloseCount, outerReaderClosed, subs,
                   frame, ttsExit, invokes>>
    /\ UNCHANGED ttsOthers

\* the caller cancels the ctx given to Transform
TtsCancel ==
    /\ ~ttsCtxDone
    /\ ttsCtxDone' = TRUE
    /\ UNCHANGED <<ttsPc, ttsRecvLog, ttsTerm, hasStartCb, hasEndCb, startCalls, endCalls,
                   outer, outerClosed, outerCloseCount, outerReaderClosed, subs, synthLog,
                   outputChan, frame, ttsExit, invokes>>
    /\ UNCHANGED ttsOthers

\* the consumer closes the reader of the outer stream
OuterReaderClose ==
    /\ ~outerReaderClosed
    /\ outerReaderClosed' = TRUE
    /\ UNCHANGED <<ttsCtxDone, ttsPc, ttsRecvLog, ttsTerm, hasStartCb, hasEndCb, startCalls,
                   endCalls, outer, outerClosed, outerCloseCount, subs, synthLog,
                   outputChan, frame, ttsExit, invokes>>
    /\ UNCHANGED ttsOthers

\* the consumer closes the reader of sub-stream k, which it got from the outer stream
SubReaderClose(k) ==
    /\ \E i \in 1..Len(outer) : outer[i] = k
    /\ ~subs[k].readerClosed
    /\ subs' = [subs EXCEPT ![k].readerClosed = TRUE]
    /\ UNCHANGED <<ttsCtxDone, ttsPc, ttsRecvLog, ttsTerm, hasStartCb, hasEndCb, startCalls,
                   endCalls, outer, outerClosed, outerCloseCount, outerReaderClosed,
                   synthLog, outputChan, frame, ttsExit, invokes>>
    /\ UNCHANGED ttsOthers

InvokeAny == \E ok \in BOOLEAN : Invoke(ok)
TtsRecvAnyMessage == \E c \in SentenceTexts : TtsRecvMessage(c)
TtsSynthAnyOk == \E n \in 0..MaxFrames : TtsSynthOk(n)
SubReaderCloseAny == \E k \in 1..MaxSentences + 1 : k <= Len(subs) /\ SubReaderClose(k)

TtsNext ==
    \/ InvokeAny
    \/ TtsLoopTop
    \/ TtsRecvEOF
    \/ TtsRecvError
    \/ TtsRecvAnyMessage
    \/ TtsSendSub
    \/ TtsSendLabel
    \/ TtsSynthError
    \/ TtsSynthAnyOk
    \/ TtsRangeFrame
    \/ TtsSendFrame
    \/ TtsRangeEnd
    \/ BackendStop
    \/ TtsCancel
    \/ OuterReaderClose
    \/ SubReaderCloseAny

(***************************************************************************)
(* AudioState, package client: part_000:112-216.  Every method but GetState *)
(* holds a.Lock from its first statement to its return, so a call is one    *)
(* step.                                                                     *)
(***************************************************************************)
AudioChannelStateIdle == "idle"
AudioChannelStatePlaying == "playing"
AudioChannelStatePause == "pause"

AudioChannelStates ==
    {AudioChannelStateIdle, AudioChannelStatePlaying, AudioChannelStatePause}

Waiters == 1..NumWaiters

\* NewAudioState: State idle, Cond on the lock, Ctx and Cancel left nil
NewAudioState ==
    /\ audState = AudioChannelStateIdle
    /\ audCtx = 0
    /\ audCancel = 0
    /\ audCancelled = {}
    /\ audNextCtx = 1
    /\ audPanicked = FALSE
    /\ audBroadcasts = 0
    /\ audOps = 0
    /\ audLastOp = "NewAudioState"
    /\ audLastRet = "none"
    /\ audLocked = TRUE
    /\ wpc = [w \in Waiters |-> "run"]
    /\ awaiting = [w \in Waiters |-> "none"]

\* a.Lock.Lock() with defer a.Lock.Unlock() opens every method but GetState,
\* which returns a.State with no lock: part_000:147, 161-163, 167, 184, 198, 207
LockHeld(op) == op # "GetState"

\* a call of method op that returns ret; a panicked program makes no calls
AudCall(op, ret) ==
    /\ ~audPanicked
    /\ audOps < MaxOps
    /\ audOps' = audOps + 1
    /\ audLastOp' = op
    /\ audLastRet' = ret
    /\ audLocked' = LockHeld(op)

\* a.Cond.Broadcast(): every goroutine blocked in Cond.Wait is woken
Broadcast ==
    /\ audBroadcasts' = audBroadcasts + 1
    /\ wpc' = [w \in Waiters |-> IF wpc[w] = "waiting" THEN "woken" ELSE wpc[w]]

\* SetPause without the test of the current State
SetPause_Always ==
    /\ AudCall("SetPause", "nil")
    /\ IF TRUE
       THEN /\ audState' = AudioChannelStatePause
            /\ Broadcast
       ELSE UNCHANGED <<audState, audBroadcasts, wpc>>
    /\ UNCHANGED <<audCtx, audCancel, audCancelled, audNextCtx, audPanicked, awaiting>>
    /\ UNCHANGED audOthers

\* part_000:145-159
SetPause ==
    /\ AudCall("SetPause", "nil")
    /\ IF audState = AudioChannelStatePlaying
       THEN /\ audState' = AudioChannelStatePause
            /\ Broadcast
       ELSE UNCHANGED <<audState, audBroadcasts, wpc>>
    /\ UNCHANGED <<audCtx, audCancel, audCancelled, audNextCtx, audPanicked, awaiting>>
    /\ UNCHANGED audOthers

\* part_000:161-163
GetState ==
    /\ AudCall("GetState", audState)
    /\ UNCHANGED <<audState, audCtx, audCancel, audCancelled, audNextCtx, audPanicked,
                   audBroadcasts, wpc, awaiting>>
    /\ UNCHANGED audOthers

\* SetStop that acts in Playing only
SetStop_FromPlayingOnly ==
    /\ AudCall("SetStop", "nil")
    /\ IF audState = AudioChannelStatePlaying
       THEN /\ audState' = AudioChannelStateIdle
            /\ Broadcast
       ELSE UNCHANGED <<audState, audBroadcasts, wpc>>
    /\ UNCHANGED <<audCtx, audCancel, audCancelled, audNextCtx, audPanicked, awaiting>>
    /\ UNCHANGED audOthers

\* part_000:165-180
SetStop ==
    /\ AudCall("SetStop", "nil")
    /\ IF audState = AudioChannelStatePlaying \/ audState = AudioChannelStatePause
       THEN /\ audState' = AudioChannelStateIdle
            /\ Broadcast
       ELSE UNCHANGED <<audState, audBroadcasts, wpc>>
    /\ UNCHANGED <<audCtx, audCancel, audCancelled, audNextCtx, audPanicked, awaiting>>
    /\ UNCHANGED audOthers

\* SetPlay that broadcasts only when State changes
SetPlay_IfChanged ==
    /\ AudCall("SetPlay", "nil")
    /\ audState' = AudioChannelStatePlaying
    /\ IF audState # AudioChannelStatePlaying
       THEN Broadcast
       ELSE UNCHANGED <<audBroadcasts, wpc>>
    /\ UNCHANGED <<audCtx, audCancel, audCancelled, audNextCtx, audPanicked, awaiting>>
    /\ UNCHANGED audOthers

\* SetPlay that also installs a new session context
SetPlay_NewCtx ==
    /\ AudCall("SetPlay", "nil")
    /\ audState' = AudioChannelStatePlaying
    /\ Broadcast
    /\ audCtx' = audNextCtx
    /\ audCancel' = audNextCtx
    /\ audNextCtx' = audNextCtx + 1
    /\ UNCHANGED <<audCancelled, audPanicked, awaiting>>
    /\ UNCHANGED audOthers

\* part_000:182-195
SetPlay ==
    /\ AudCall("SetPlay", "nil")
    /\ audState' = AudioChannelStatePlaying
    /\ Broadcast
    /\ UNCHANGED <<audCtx, audCancel, audCancelled, audNextCtx, audPanicked, awaiting>>
    /\ UNCHANGED audOthers

\* CancelCtx that cancels and leaves State as it is
CancelCtx_KeepState ==
    /\ IF audCancel = 0
       THEN /\ AudCall("CancelCtx", "panic")
            /\ audPanicked' = TRUE
            /\ UNCHANGED <<audState, audCancelled>>
       ELSE /\ AudCall("CancelCtx", "nil")
            /\ audCancelled' = audCancelled \cup {audCancel}
            /\ audState' = audState
            /\ UNCHANGED audPanicked
    /\ UNCHANGED <<audCtx, audCancel, audNextCtx, audBroadcasts, wpc, awaiting>>
    /\ UNCHANGED audOthers

\* part_000:197-204: a.Cancel() with a nil Cancel panics before State is set
CancelCtx ==
    /\ IF audCancel = 0
       THEN /\ AudCall("CancelCtx", "panic")
            /\ audPanicked' = TRUE
            /\ UNCHANGED <<audState, audCancelled>>
       ELSE /\ AudCall("CancelCtx", "nil")
            /\ audCancelled' = audCancelled \cup {audCancel}
            /\ audState' = AudioChannelStateIdle
            /\ UNCHANGED audPanicked
    /\ UNCHANGED <<audCtx, audCancel, audNextCtx, audBroadcasts, wpc, awaiting>>
    /\ UNCHANGED audOthers

\* RestartSessionCtx that replaces the context without cancelling the old one
RestartSessionCtx_NoCancel ==
    /\ IF audCancel = 0
       THEN /\ AudCall("RestartSessionCtx", "panic")
            /\ audPanicked' = TRUE
            /\ UNCHANGED <<audState, audCancelled, audCtx, audCancel, audNextCtx>>
       ELSE /\ AudCall("RestartSessionCtx", "nil")
            /\ audCancelled' = audCancelled
            /\ audState' = AudioChannelStateIdle
            /\ audCtx' = audNextCtx
            /\ audCancel' = audNextCtx
            /\ audNextCtx' = audNextCtx + 1
            /\ UNCHANGED audPanicked
    /\ UNCHANGED <<audBroadcasts, wpc, awaiting>>
    /\ UNCHANGED audOthers

\* part_000:206-216
RestartSessionCtx ==
    /\ IF audCancel = 0
       THEN /\ AudCall("RestartSessionCtx", "panic")
            /\ audPanicked' = TRUE
            /\ UNCHANGED <<audState, audCancelled, audCtx, audCancel, audNextCtx>>
       ELSE /\ AudCall("RestartSessionCtx", "nil")
            /\ audCancelled' = audCancelled \cup {audCancel}
            /\ audState' = AudioChannelStateIdle
            /\ audCtx' = audNextCtx
            /\ audCancel' = audNextCtx
            /\ audNextCtx' = audNextCtx + 1
            /\ UNCHANGED audPanicked
    /\ UNCHANGED <<audBroadcasts, wpc, awaiting>>
    /\ UNCHANGED audOthers

\* the owner of the AudioState stores the first context and its cancel
\* function in the exported fields Ctx and Cancel
InstallSessionCtx ==
    /\ ~audPanicked
    /\ audCancel = 0
    /\ audCtx' = audNextCtx
    /\ audCancel' = audNextCtx
    /\ audNextCtx' = audNextCtx + 1
    /\ UNCHANGED <<audState, audCancelled, audPanicked, audBroadcasts, audOps, audLastOp,
                   audLastRet, audLocked, wpc, awaiting>>
    /\ UNCHANGED audOthers

\* a waiter, holding the lock, finds State = s and calls Cond.Wait to see it replaced
WaitBegin(w) ==
    /\ ~audPanicked
    /\ wpc[w] = "run"
    /\ wpc' = [wpc EXCEPT ![w] = "waiting"]
    /\ awaiting' = [awaiting EXCEPT ![w] = audState]
    /\ UNCHANGED <<audState, audCtx, audCancel, audCancelled, audNextCtx, audPanicked,
                   audBroadcasts, audOps, audLastOp, audLastRet, audLocked>>
    /\ UNCHANGED audOthers

\* a woken waiter has the lock again and checks State: it waits again or goes on
WaitRecheck(w) ==
    /\ wpc[w] = "woken"
    /\ IF audState = awaiting[w]
       THEN /\ wpc' = [wpc EXCEPT ![w] = "waiting"]
            /\ UNCHANGED awaiting
       ELSE /\ wpc' = [wpc EXCEPT ![w] = "run"]
            /\ awaiting' = [awaiting EXCEPT ![w] = "none"]
    /\ UNCHANGED <<audState, audCtx, audCancel, audCancelled, audNextCtx, audPanicked,
                   audBroadcasts, audOps, audLastOp, audLastRet, audLocked>>
    /\ UNCHANGED audOthers

WaitBeginAny == \E w \in Waiters : WaitBegin(w)
WaitRecheckAny == \E w \in Waiters : WaitRecheck(w)

AudNext ==
    \/ SetPause
    \/ GetState
    \/ SetStop
    \/ SetPlay
    \/ CancelCtx
    \/ RestartSessionCtx
    \/ InstallSessionCtx
    \/ WaitBeginAny
    \/ WaitRecheckAny

(***************************************************************************)
(* EinoLLMProvider: NewEinoLLMProvider, GetModelInfo, WithMaxTokens and    *)
(* WithStreamable, common/types.go:128-259 and 425-436.                    *)
(***************************************************************************)
\* values of a map[string]interface{}: a missing key, a string, an int, a bool
Absent == [kind |-> "absent"]
StrVal(s) == [kind |-> "string", str |-> s]
IntVal(n) == [kind |-> "int", int |-> n]
BoolVal(b) == [kind |-> "bool", bool |-> b]

\* v, _ := config[key].(string)
AsString(v) == IF v.kind = "string" THEN v.str ELSE ""

\* the configs NewEinoLLMProvider is called with
Configs ==
    [type : {Absent, StrVal(""), StrVal("openai"), StrVal("ollama"), StrVal("azure"),
             IntVal(1)},
     model_name : {Absent, StrVal(""), StrVal("m")},
     max_tokens : {Absent, IntVal(100)},
     streamable : {Absent, BoolVal(TRUE), BoolVal(FALSE), StrVal("false")},
     base_url : {Absent, StrVal("u")}]

NoConfig == [kind |-> "none"]

\* the arguments WithMaxTokens is called with
MaxTokensArgs == {0, 1000}

\* no call yet
NoCall == [op |-> "none", recv |-> 0, argInt |-> 0, argBool |-> FALSE, result |-> 0,
           err |-> FALSE]

ProvInit ==
    /\ provConfig = NoConfig
    /\ providers = << >>
    /\ provLast = NoCall

\* types.go:182-217; libOk: openai.NewChatModel returns no error
createOpenAIChatModel(config, libOk) ==
    [chatModel |-> [impl |-> "openai",
                    Model |-> IF AsString(config.model_name) = ""
                              THEN "gpt-3.5-turbo" ELSE AsString(config.model_name),
                    BaseURL |-> AsString(config.base_url)],
     err |-> ~libOk]

\* types.go:220-245; libOk: ollama.NewChatModel returns no error
createOllamaChatModel(config, libOk) ==
    [chatModel |-> [impl |-> "ollama",
                    Model |-> AsString(config.model_name),
                    BaseURL |-> AsString(config.base_url)],
     err |-> \/ AsString(config.model_name) = ""
             \/ AsString(config.base_url) = ""
             \/ ~libOk]

\* the struct literal of types.go:169-176
EinoLLMProvider(chatModel, modelName, maxTokens, streamable, config, providerType) ==
    [chatModel |-> chatModel, modelName |-> modelName, maxTokens |-> maxTokens,
     streamable |-> streamable, config |-> config, providerType |-> providerType]

\* no provider: the nil of a failed NewEinoLLMProvider
NilProvider == [kind |-> "nil"]

\* NewEinoLLMProvider without the test of model_name
NewEinoLLMProvider_NoModelCheck(config, libOk) ==
    LET providerType == AsString(config.type)
        modelName == AsString(config.model_name)
        maxTokens == IF config.max_tokens.kind = "int"
                     THEN config.max_tokens.int ELSE DefaultMaxTokens
        streamable == IF config.streamable.kind = "bool"
                      THEN config.streamable.bool ELSE TRUE
        created == IF providerType = "openai"
                   THEN createOpenAIChatModel(config, libOk)
                   ELSE createOllamaChatModel(config, libOk)
    IN  IF providerType = "" THEN [provider |-> NilProvider, err |-> TRUE]
        ELSE IF FALSE THEN [provider |-> NilProvider, err |-> TRUE]
        ELSE IF providerType \notin {"openai", "ollama"}
             THEN [provider |-> NilProvider, err |-> TRUE]
        ELSE IF created.err THEN [provider |-> NilProvider, err |-> TRUE]
        ELSE [provider |-> EinoLLMProvider(created.chatModel, modelName, maxTokens,
                                           streamable, config, providerType),
              err |-> FALSE]

\* types.go:128-179: the provider and the error (TRUE: non-nil) it returns
NewEinoLLMProvider(config, libOk) ==
    LET providerType == AsString(config.type)
        modelName == AsString(config.model_name)
        maxTokens == IF config.max_tokens.kind = "int"
                     THEN config.max_tokens.int ELSE DefaultMaxTokens
        streamable == IF config.streamable.kind = "bool"
                      THEN config.streamable.bool ELSE TRUE
        created == IF providerType = "openai"
                   THEN createOpenAIChatModel(config, libOk)
                   ELSE createOllamaChatModel(config, libOk)
    IN  IF providerType = "" THEN [provider |-> NilProvider, err |-> TRUE]
        ELSE IF modelName = "" THEN [provider |-> NilProvider, err |-> TRUE]
        ELSE IF providerType \notin {"openai", "ollama"}
             THEN [provider |-> NilProvider, err |-> TRUE]
        ELSE IF created.err THEN [provider |-> NilProvider, err |-> TRUE]
        ELSE [provider |-> EinoLLMProvider(created.chatModel, modelName, maxTokens,
                                           streamable, config, providerType),
              err |-> FALSE]

\* types.go:248-259
GetModelInfo(p) ==
    [model_name |-> p.modelName, max_tokens |-> p.maxTokens, streamable |-> p.streamable,
     type |-> "eino", provider_type |-> p.providerType, framework |-> "eino",
     adapter_version |-> "3.0.0", base_url |-> p.config.base_url]

\* the caller builds the config map
ProvLoadConfig(config) ==
    /\ provConfig = NoConfig
    /\ provConfig' = config
    /\ UNCHANGED <<providers, provLast>>
    /\ UNCHANGED provOthers

\* a call of NewEinoLLMProvider(provConfig)
ProvNew(libOk) ==
    /\ provConfig # NoConfig
    /\ Len(providers) < MaxProviders
    /\ LET r == NewEinoLLMProvider(provConfig, libOk)
       IN  IF r.err
           THEN /\ providers' = providers
                /\ provLast' = [NoCall EXCEPT !.op = "NewEinoLLMProvider", !.err = TRUE]
           ELSE /\ providers' = Append(providers, r.provider)
                /\ provLast' = [NoCall EXCEPT !.op = "NewEinoLLMProvider",
                                              !.result = Len(providers) + 1]
    /\ UNCHANGED provConfig
    /\ UNCHANGED provOthers

\* WithMaxTokens that sets maxTokens of the receiver and returns the receiver
WithMaxTokens_InPlace(p, maxTokens) ==
    /\ p \in 1..Len(providers)
    /\ Len(providers) < MaxProviders
    /\ providers' = [providers EXCEPT ![p].maxTokens = maxTokens]
    /\ provLast' = [NoCall EXCEPT !.op = "WithMaxTokens", !.recv = p, !.argInt = maxTokens,
                                  !.result = p]
    /\ UNCHANGED provConfig
    /\ UNCHANGED provOthers

\* types.go:425-429: newProvider := *p; newProvider.maxTokens = maxTokens
WithMaxTokens(p, maxTokens) ==
    /\ p \in 1..Len(providers)
    /\ Len(providers) < MaxProviders
    /\ providers' = Append(providers, [providers[p] EXCEPT !.maxTokens = maxTokens])
    /\ provLast' = [NoCall EXCEPT !.op = "WithMaxTokens", !.recv = p, !.argInt = maxTokens,
                                  !.result = Len(providers) + 1]
    /\ UNCHANGED provConfig
    /\ UNCHANGED provOthers

\* types.go:432-436: newProvider := *p; newProvider.streamable = streamable
WithStreamable(p, streamable) ==
    /\ p \in 1..Len(providers)
    /\ Len(providers) < MaxProviders
    /\ providers' = Append(providers, [providers[p] EXCEPT !.streamable = streamable])
    /\ provLast' = [NoCall EXCEPT !.op = "WithStreamable", !.recv = p,
                                  !.argBool = streamable, !.result = Len(providers) + 1]
    /\ UNCHANGED provConfig
    /\ UNCHANGED provOthers

ProvLoadAnyConfig == \E config \in Configs : ProvLoadConfig(config)
ProvNewAny == \E libOk \in BOOLEAN : ProvNew(libOk)
WithMaxTokensAny ==
    \E p \in 1..MaxProviders : \E maxTokens \in MaxTokensArgs : WithMaxTokens(p, maxTokens)
WithStreamableAny ==
    \E p \in 1..MaxProviders : \E streamable \in BOOLEAN : WithStreamable(p, streamable)

ProvNext ==
    \/ ProvLoadAnyConfig
    \/ ProvNewAny
    \/ WithMaxTokensAny
    \/ WithStreamableAny

(***************************************************************************)
(* Stream-based controller: stream_sentence.HandleLLMWithContextAndTools,  *)
(* part_000:22-110.  Its output is a schema.Pipe: Send returns closed=true *)
(* at once when the reader is closed and waits for room otherwise.         *)
(***************************************************************************)
\* an item that leaves out the tool calls
SsItem_NoToolCalls(content, toolCalls, err) ==
    [Content |-> content, ToolCalls |-> << >>, Err |-> err]

\* an item of the output pipe: the message and the error given to Send
SsItem(content, toolCalls, err) == [Content |-> content, ToolCalls |-> toolCalls, Err |-> err]

\* what the upstream of the stream-based controller delivers
SsMessages == {Message(StrHello, <<ToolX>>), Message(StrBye, << >>), Message(StrEmpty, <<ToolX>>)}

SsInit ==
    /\ ssCtxDone = FALSE
    /\ ssPc = "top"
    /\ ssRecvLog = << >>
    /\ ssTerm = "none"
    /\ ssMessage = NoMessage
    /\ ssBuffer = StrEmpty
    /\ ssFullText = StrEmpty
    /\ ssIsFirst = TRUE
    /\ ssFirstFrame = FALSE
    /\ ssSentences = << >>
    /\ ssRemaining = StrEmpty
    /\ outputStream = << >>
    /\ ssWriterClosed = FALSE
    /\ ssCloseCount = 0
    /\ ssReaderClosed = FALSE
    /\ ssSentLog = << >>
    /\ ssExit = "none"

\* the worker returns: the deferred outputStreamWriter.Close(), part_000:33-36
SsReturn(path) ==
    /\ ssPc' = "done"
    /\ ssWriterClosed' = TRUE
    /\ ssCloseCount' = ssCloseCount + 1
    /\ ssExit' = path

\* outputStreamWriter.Send(item): the result is not looked at
SsSend(item) ==
    IF ssReaderClosed
    THEN /\ ssSentLog' = Append(ssSentLog, [item |-> item, closed |-> TRUE])
         /\ UNCHANGED outputStream
    ELSE /\ Len(outputStream) < OutputStreamCap
         /\ outputStream' = Append(outputStream, item)
         /\ ssSentLog' = Append(ssSentLog, [item |-> item, closed |-> FALSE])

\* part_000:39-44: select { case <-ctx.Done(): return; default: }
SsLoopTop ==
    /\ ssPc = "top"
    /\ \/ /\ ssCtxDone
          /\ SsReturn("cancelTop")
       \/ /\ ~ssCtxDone
          /\ ssPc' = "recv"
          /\ UNCHANGED <<ssWriterClosed, ssCloseCount, ssExit>>
    /\ UNCHANGED <<ssCtxDone, ssRecvLog, ssTerm, ssMessage, ssBuffer, ssFullText, ssIsFirst,
                   ssFirstFrame, ssSentences, ssRemaining, outputStream, ssReaderClosed,
                   ssSentLog>>
    /\ UNCHANGED ssOthers

\* part_000:46-58: Recv returns io.EOF; err = nil and retstring = the buffer
SsRecvEOF ==
    /\ ssPc = "recv"
    /\ ssTerm' = "EOF"
    /\ ssRemaining' = ssBuffer
    /\ ssFullText' = ssFullText \o ssBuffer
    /\ ssPc' = "sendEnd"
    /\ UNCHANGED <<ssCtxDone, ssRecvLog, ssMessage, ssBuffer, ssIsFirst, ssFirstFrame,
                   ssSentences, outputStream, ssWriterClosed, ssCloseCount, ssReaderClosed,
                   ssSentLog, ssExit>>
    /\ UNCHANGED ssOthers

\* part_000:46-58: Recv returns another error; retstring stays ""
SsRecvError ==
    /\ ssPc = "recv"
    /\ ssTerm' = "Err"
    /\ ssRemaining' = StrEmpty
    /\ ssPc' = "sendEnd"
    /\ UNCHANGED <<ssCtxDone, ssRecvLog, ssMessage, ssBuffer, ssFullText, ssIsFirst,
                   ssFirstFrame, ssSentences, outputStream, ssWriterClosed, ssCloseCount,
                   ssReaderClosed, ssSentLog, ssExit>>
    /\ UNCHANGED ssOthers

\* part_000:65-67: Recv returns a nil message and no error: break
SsRecvNil ==
    /\ ssPc = "recv"
    /\ ssTerm' = "Nil"
    /\ SsReturn("nilMessage")
    /\ UNCHANGED <<ssCtxDone, ssRecvLog, ssMessage, ssBuffer, ssFullText, ssIsFirst,
                   ssFirstFrame, ssSentences, ssRemaining, outputStream, ssReaderClosed,
                   ssSentLog>>
    /\ UNCHANGED ssOthers

\* part_000:68-98: Recv returns message m
SsRecvMessage(m) ==
    /\ ssPc = "recv"
    /\ Len(ssRecvLog) < MaxSsMsgs
    /\ ssRecvLog' = Append(ssRecvLog, m)
    /\ ssMessage' = m
    /\ ssFullText' = ssFullText \o m.Content
    /\ IF m.Content # StrEmpty /\ ContainsSentenceSeparator(m.Content, ssIsFirst)
       THEN LET r  == ExtractSmartSentences(ssBuffer \o m.Content, MinSentenceLen,
                                            MaxSentenceLen, ssIsFirst)
                ss == SelectSeq(r.sentences, LAMBDA s : s # StrEmpty)
            IN  /\ ssRemaining' = r.remaining
                /\ ssSentences' = ss
                /\ IF ss # << >>
                   THEN /\ ssBuffer' = ssBuffer \o m.Content
                        /\ ssFirstFrame' = TRUE
                        /\ ssPc' = "sendSentence"
                        /\ UNCHANGED ssIsFirst
                   ELSE /\ ssBuffer' = r.remaining
                        /\ ssIsFirst' = FALSE
                        /\ ssPc' = AfterContent(m)
                        /\ UNCHANGED ssFirstFrame
       ELSE /\ ssBuffer' = ssBuffer \o m.Content
            /\ ssPc' = AfterContent(m)
            /\ UNCHANGED <<ssIsFirst, ssFirstFrame, ssSentences, ssRemaining>>
    /\ UNCHANGED <<ssCtxDone, ssTerm, outputStream, ssWriterClosed, ssCloseCount,
                   ssReaderClosed, ssSentLog, ssExit>>
    /\ UNCHANGED ssOthers

\* part_000:82-90: Send of one sentence in the range loop
SsSendSentence ==
    /\ ssPc = "sendSentence"
    /\ SsSend(SsItem(NextSentence(ssSentences), << >>, FALSE))
    /\ ssSentences' = Tail(ssSentences)
    /\ ssIsFirst' = FALSE
    /\ IF Tail(ssSentences) = << >>
       THEN /\ ssBuffer' = ssRemaining
            /\ ssPc' = AfterContent(ssMessage)
       ELSE /\ ssPc' = "sendSentence"
            /\ UNCHANGED ssBuffer
    /\ UNCHANGED <<ssCtxDone, ssRecvLog, ssTerm, ssMessage, ssFullText, ssFirstFrame,
                   ssRemaining, ssWriterClosed, ssCloseCount, ssReaderClosed, ssExit>>
    /\ UNCHANGED ssOthers

\* part_000:100-106: Send of the tool calls of the message
SsSendToolCalls ==
    /\ ssPc = "sendToolCalls"
    /\ SsSend(SsItem(StrEmpty, ssMessage.ToolCalls, FALSE))
    /\ ssPc' = "top"
    /\ UNCHANGED <<ssCtxDone, ssRecvLog, ssTerm, ssMessage, ssBuffer, ssFullText, ssIsFirst,
                   ssFirstFrame, ssSentences, ssRemaining, ssWriterClosed, ssCloseCount,
                   ssReaderClosed, ssExit>>
    /\ UNCHANGED ssOthers

\* part_000:59-63: Send of the final item with the error, then return
SsSendEnd ==
    /\ ssPc = "sendEnd"
    /\ SsSend(SsItem(ssRemaining, << >>, ssTerm = "Err"))
    /\ SsReturn(IF ssTerm = "Err" THEN "error" ELSE "eof")
    /\ UNCHANGED <<ssCtxDone, ssRecvLog, ssTerm, ssMessage, ssBuffer, ssFullText, ssIsFirst,
                   ssFirstFrame, ssSentences, ssRemaining, ssReaderClosed>>
    /\ UNCHANGED ssOthers

\* the consumer takes one item off the output pipe
SsReceive ==
    /\ ~ssReaderClosed
    /\ outputStream # << >>
    /\ outputStream' = Tail(outputStream)
    /\ UNCHANGED <<ssCtxDone, ssPc, ssRecvLog, ssTerm, ssMessage, ssBuffer, ssFullText,
                   ssIsFirst, ssFirstFrame, ssSentences, ssRemaining, ssWriterClosed,
                   ssCloseCount, ssReaderClosed, ssSentLog, ssExit>>
    /\ UNCHANGED ssOthers

\* the consumer closes the reader of the output pipe
SsReaderClose ==
    /\ ~ssReaderClosed
    /\ ssReaderClosed' = TRUE
    /\ UNCHANGED <<ssCtxDone, ssPc, ssRecvLog, ssTerm, ssMessage, ssBuffer, ssFullText,
                   ssIsFirst, ssFirstFrame, ssSentences, ssRemaining, outputStream,
                   ssWriterClosed, ssCloseCount, ssSentLog, ssExit>>
    /\ UNCHANGED ssOthers

\* the caller cancels ctx
SsCancel ==
    /\ ~ssCtxDone
    /\ ssCtxDone' = TRUE
    /\ UNCHANGED <<ssPc, ssRecvLog, ssTerm, ssMessage, ssBuffer, ssFullText, ssIsFirst,
                   ssFirstFrame, ssSentences, ssRemaining, outputStream, ssWriterClosed,
                   ssCloseCount, ssReaderClosed, ssSentLog, ssExit>>
    /\ UNCHANGED ssOthers

SsRecvAnyMessage == \E m \in SsMessages : SsRecvMessage(m)

\* the steps of the worker goroutine
SsWorker ==
    \/ SsLoopTop
    \/ SsRecvEOF
    \/ SsRecvError
    \/ SsRecvNil
    \/ SsRecvAnyMessage
    \/ SsSendSentence
    \/ SsSendToolCalls
    \/ SsSendEnd

SsNext ==
    \/ SsLoopTop
    \/ SsRecvEOF
    \/ SsRecvError
    \/ SsRecvNil
    \/ SsRecvAnyMessage
    \/ SsSendSentence
    \/ SsSendToolCalls
    \/ SsSendEnd
    \/ SsReceive
    \/ SsReaderClose
    \/ SsCancel

(***************************************************************************)
(* Specifications.                                                         *)
(***************************************************************************)
RecvAnyMessage == \E m \in CtlMessages : RecvMessage(m)

Worker ==
    \/ LoopTop
    \/ RecvEOF
    \/ RecvError
    \/ RecvNil
    \/ RecvAnyMessage
    \/ SendSentence
    \/ SendToolCalls
    \/ SendEnd

CtlNext ==
    \/ Worker
    \/ Receive
    \/ Cancel

(***************************************************************************)
(* Microsoft ASR: MicrosoftASRProvider.StreamingRecognize,                 *)
(* microsoft.go:213-397.  The SDK runs one callback at a time on its own   *)
(* thread; the audio-push goroutine and the cleanup goroutine run beside   *)
(* it.  A callback that has begun runs on when recognizer.Close() is       *)
(* called, and the sleeps of the cleanup goroutine order nothing.          *)
(***************************************************************************)
AsrInit ==
    /\ asrCtxDone = FALSE
    /\ sdkPc = "idle"
    /\ sdkEvents = 0
    /\ pushPc = "loop"
    /\ chunksPushed = 0
    /\ audioStreamClosed = FALSE
    /\ cleanupPc = "waitAudio"
    /\ recognizerClosed = FALSE
    /\ sessionStopped = FALSE
    /\ sessionStoppedCloses = 0
    /\ resultChan = << >>
    /\ resultChanClosed = FALSE
    /\ resultChanCloses = 0
    /\ asrPanic = "none"

\* no goroutine has panicked: the process runs
AsrRunning == asrPanic = "none"

\* audioStreamEnded is closed: the audio-push goroutine has returned
audioStreamEnded == pushPc = "done"

\* the SDK thread is free and the recognizer still delivers events
SdkMayFire ==
    /\ AsrRunning
    /\ sdkPc = "idle"
    /\ ~recognizerClosed
    /\ sdkEvents < MaxSdkEvents

\* close(sessionStopped): closing a closed channel panics
CloseSessionStopped ==
    /\ sessionStopped' = TRUE
    /\ sessionStoppedCloses' = sessionStoppedCloses + 1
    /\ asrPanic' = IF sessionStopped THEN "close of closed channel" ELSE asrPanic

\* the case resultChan <- r of a select can proceed: there is room, or the
\* channel is closed and the send panics
SendResultReady == resultChanClosed \/ Len(resultChan) < ResultChanCap

\* the case resultChan <- r is taken
ChanSendResult(r) ==
    /\ SendResultReady
    /\ IF resultChanClosed
       THEN /\ asrPanic' = "send on closed channel"
            /\ UNCHANGED resultChan
       ELSE /\ resultChan' = Append(resultChan, r)
            /\ UNCHANGED asrPanic

\* the SDK fires SessionStopped: microsoft.go:231-234, the callback reaches its select
SdkSessionStopped ==
    /\ SdkMayFire
    /\ sdkEvents' = sdkEvents + 1
    /\ sdkPc' = "stoppedCheck"
    /\ UNCHANGED <<asrCtxDone, pushPc, chunksPushed, audioStreamClosed, cleanupPc,
                   recognizerClosed, sessionStopped, sessionStoppedCloses, resultChan,
                   resultChanClosed, resultChanCloses, asrPanic>>
    /\ UNCHANGED asrOthers

\* microsoft.go:235-240: select { case <-sessionStopped: default: ... } in the SessionStopped callback
StoppedCheck ==
    /\ AsrRunning
    /\ sdkPc = "stoppedCheck"
    /\ sdkPc' = IF sessionStopped THEN "idle" ELSE "stoppedClose"
    /\ UNCHANGED <<asrCtxDone, sdkEvents, pushPc, chunksPushed, audioStreamClosed, cleanupPc,
                   recognizerClosed, sessionStopped, sessionStoppedCloses, resultChan,
                   resultChanClosed, resultChanCloses, asrPanic>>
    /\ UNCHANGED asrOthers

\* microsoft.go:235-240: close(sessionStopped) of the default case in the SessionStopped callback
StoppedClose ==
    /\ AsrRunning
    /\ sdkPc = "stoppedClose"
    /\ CloseSessionStopped
    /\ sdkPc' = "idle"
    /\ UNCHANGED <<asrCtxDone, sdkEvents, pushPc, chunksPushed, audioStreamClosed, cleanupPc,
                   recognizerClosed, resultChan, resultChanClosed, resultChanCloses>>
    /\ UNCHANGED asrOthers

\* the SDK fires Recognized with reason: microsoft.go:254-257, 273-277
SdkRecognized(reason) ==
    /\ SdkMayFire
    /\ sdkEvents' = sdkEvents + 1
    /\ sdkPc' = IF reason = "RecognizedSpeech" THEN "recognizedSend" ELSE "idle"
    /\ UNCHANGED <<asrCtxDone, pushPc, chunksPushed, audioStreamClosed, cleanupPc,
                   recognizerClosed, sessionStopped, sessionStoppedCloses, resultChan,
                   resultChanClosed, resultChanCloses, asrPanic>>
    /\ UNCHANGED asrOthers

\* microsoft.go:258-271: select { case <-ctx.Done(): case resultChan <- r: default: }
RecognizedSend ==
    /\ AsrRunning
    /\ sdkPc = "recognizedSend"
    /\ \/ /\ asrCtxDone
          /\ UNCHANGED <<resultChan, asrPanic>>
       \/ ChanSendResult("final")
       \/ /\ ~asrCtxDone /\ ~SendResultReady
          /\ UNCHANGED <<resultChan, asrPanic>>
    /\ sdkPc' = "idle"
    /\ UNCHANGED <<asrCtxDone, sdkEvents, pushPc, chunksPushed, audioStreamClosed, cleanupPc,
                   recognizerClosed, sessionStopped, sessionStoppedCloses, resultChanClosed,
                   resultChanCloses>>
    /\ UNCHANGED asrOthers

\* the SDK fires Canceled with reason: microsoft.go:280-284
SdkCanceled(reason) ==
    /\ SdkMayFire
    /\ sdkEvents' = sdkEvents + 1
    /\ sdkPc' = IF reason = "Error" THEN "canceledSend" ELSE "idle"
    /\ UNCHANGED <<asrCtxDone, pushPc, chunksPushed, audioStreamClosed, cleanupPc,
                   recognizerClosed, sessionStopped, sessionStoppedCloses, resultChan,
                   resultChanClosed, resultChanCloses, asrPanic>>
    /\ UNCHANGED asrOthers

\* microsoft.go:286-294: select { case <-ctx.Done(): return; case resultChan <- r: }
CanceledSend ==
    /\ AsrRunning
    /\ sdkPc = "canceledSend"
    /\ \/ /\ asrCtxDone
          /\ sdkPc' = "idle"
          /\ UNCHANGED <<resultChan, asrPanic>>
       \/ /\ ChanSendResult("error")
          /\ sdkPc' = "canceledCheck"
    /\ UNCHANGED <<asrCtxDone, sdkEvents, pushPc, chunksPushed, audioStreamClosed, cleanupPc,
                   recognizerClosed, sessionStopped, sessionStoppedCloses, resultChanClosed,
                   resultChanCloses>>
    /\ UNCHANGED asrOthers

\* microsoft.go:296-301: select { case <-sessionStopped: default: ... } in the Canceled callback
CanceledCheck ==
    /\ AsrRunning
    /\ sdkPc = "canceledCheck"
    /\ sdkPc' = IF sessionStopped THEN "idle" ELSE "canceledClose"
    /\ UNCHANGED <<asrCtxDone, sdkEvents, pushPc, chunksPushed, audioStreamClosed, cleanupPc,
                   recognizerClosed, sessionStopped, sessionStoppedCloses, resultChan,
                   resultChanClosed, resultChanCloses, asrPanic>>
    /\ UNCHANGED asrOthers

\* microsoft.go:296-301: close(sessionStopped) of the default case in the Canceled callback
CanceledClose ==
    /\ AsrRunning
    /\ sdkPc = "canceledClose"
    /\ CloseSessionStopped
    /\ sdkPc' = "idle"
    /\ UNCHANGED <<asrCtxDone, sdkEvents, pushPc, chunksPushed, audioStreamClosed, cleanupPc,
                   recognizerClosed, resultChan, resultChanClosed, resultChanCloses>>
    /\ UNCHANGED asrOthers

\* microsoft.go:318-321: case <-ctx.Done(): return, with the deferred close(audioStreamEnded)
PushCtxDone ==
    /\ AsrRunning
    /\ pushPc = "loop"
    /\ asrCtxDone
    /\ pushPc' = "done"
    /\ UNCHANGED <<asrCtxDone, sdkPc, sdkEvents, chunksPushed, audioStreamClosed, cleanupPc,
                   recognizerClosed, sessionStopped, sessionStoppedCloses, resultChan,
                   resultChanClosed, resultChanCloses, asrPanic>>
    /\ UNCHANGED asrOthers

\* microsoft.go:322-326: audioStream is closed
PushStreamEnded ==
    /\ AsrRunning
    /\ pushPc = "loop"
    /\ audioStreamClosed
    /\ pushPc' = "done"
    /\ UNCHANGED <<asrCtxDone, sdkPc, sdkEvents, chunksPushed, audioStreamClosed, cleanupPc,
                   recognizerClosed, sessionStopped, sessionStoppedCloses, resultChan,
                   resultChanClosed, resultChanCloses, asrPanic>>
    /\ UNCHANGED asrOthers

\* microsoft.go:322-333: a chunk is read and stream.Write returns ok or an error
PushChunk(ok) ==
    /\ AsrRunning
    /\ pushPc = "loop"
    /\ ~audioStreamClosed
    /\ chunksPushed < MaxChunks
    /\ chunksPushed' = chunksPushed + 1
    /\ pushPc' = IF ok THEN "loop" ELSE "writeErrSend"
    /\ UNCHANGED <<asrCtxDone, sdkPc, sdkEvents, audioStreamClosed, cleanupPc,
                   recognizerClosed, sessionStopped, sessionStoppedCloses, resultChan,
                   resultChanClosed, resultChanCloses, asrPanic>>
    /\ UNCHANGED asrOthers

\* microsoft.go:335-344: select { case <-ctx.Done(): return; case resultChan <- r: }
WriteErrSend ==
    /\ AsrRunning
    /\ pushPc = "writeErrSend"
    /\ \/ /\ asrCtxDone
          /\ pushPc' = "done"
          /\ UNCHANGED <<resultChan, asrPanic>>
       \/ /\ ChanSendResult("error")
          /\ pushPc' = "writeErrCheck"
    /\ UNCHANGED <<asrCtxDone, sdkPc, sdkEvents, chunksPushed, audioStreamClosed, cleanupPc,
                   recognizerClosed, sessionStopped, sessionStoppedCloses, resultChanClosed,
                   resultChanCloses>>
    /\ UNCHANGED asrOthers

\* microsoft.go:345-351: select { case <-sessionStopped: default: ... } in the audio-push goroutine
WriteErrCheck ==
    /\ AsrRunning
    /\ pushPc = "writeErrCheck"
    /\ pushPc' = IF sessionStopped THEN "done" ELSE "writeErrClose"
    /\ UNCHANGED <<asrCtxDone, sdkPc, sdkEvents, chunksPushed, audioStreamClosed, cleanupPc,
                   recognizerClosed, sessionStopped, sessionStoppedCloses, resultChan,
                   resultChanClosed, resultChanCloses, asrPanic>>
    /\ UNCHANGED asrOthers

\* microsoft.go:345-351: close(sessionStopped) of the default case in the audio-push goroutine
WriteErrClose ==
    /\ AsrRunning
    /\ pushPc = "writeErrClose"
    /\ CloseSessionStopped
    /\ pushPc' = "done"
    /\ UNCHANGED <<asrCtxDone, sdkPc, sdkEvents, chunksPushed, audioStreamClosed, cleanupPc,
                   recognizerClosed, resultChan, resultChanClosed, resultChanCloses>>
    /\ UNCHANGED asrOthers

\* microsoft.go:359-372: <-audioStreamEnded, stream.CloseStream(), the sleep and
\* recognizer.StopContinuousRecognitionAsync()
CleanupAudioEnded ==
    /\ AsrRunning
    /\ cleanupPc = "waitAudio"
    /\ audioStreamEnded
    /\ cleanupPc' = "waitSession"
    /\ UNCHANGED <<asrCtxDone, sdkPc, sdkEvents, pushPc, chunksPushed, audioStreamClosed,
                   recognizerClosed, sessionStopped, sessionStoppedCloses, resultChan,
                   resultChanClosed, resultChanCloses, asrPanic>>
    /\ UNCHANGED asrOthers

\* microsoft.go:376-381: select { case <-sessionStopped: case <-time.After(10s): }
CleanupSessionWait ==
    /\ AsrRunning
    /\ cleanupPc = "waitSession"
    /\ cleanupPc' = "closeRecognizer"
    /\ UNCHANGED <<asrCtxDone, sdkPc, sdkEvents, pushPc, chunksPushed, audioStreamClosed,
                   recognizerClosed, sessionStopped, sessionStoppedCloses, resultChan,
                   resultChanClosed, resultChanCloses, asrPanic>>
    /\ UNCHANGED asrOthers

\* microsoft.go:385-388: the sleep and recognizer.Close()
CleanupCloseRecognizer ==
    /\ AsrRunning
    /\ cleanupPc = "closeRecognizer"
    /\ recognizerClosed' = TRUE
    /\ cleanupPc' = "closeResult"
    /\ UNCHANGED <<asrCtxDone, sdkPc, sdkEvents, pushPc, chunksPushed, audioStreamClosed,
                   sessionStopped, sessionStoppedCloses, resultChan, resultChanClosed,
                   resultChanCloses, asrPanic>>
    /\ UNCHANGED asrOthers

\* microsoft.go:216-222, 391: closeResultChan(), closeOnce.Do(close(resultChan))
CleanupCloseResult ==
    /\ AsrRunning
    /\ cleanupPc = "closeResult"
    /\ resultChanClosed' = TRUE
    /\ resultChanCloses' = resultChanCloses + 1
    /\ cleanupPc' = "done"
    /\ UNCHANGED <<asrCtxDone, sdkPc, sdkEvents, pushPc, chunksPushed, audioStreamClosed,
                   recognizerClosed, sessionStopped, sessionStoppedCloses, resultChan,
                   asrPanic>>
    /\ UNCHANGED asrOthers

\* the caller takes one result off resultChan
AsrReceive ==
    /\ AsrRunning
    /\ resultChan # << >>
    /\ resultChan' = Tail(resultChan)
    /\ UNCHANGED <<asrCtxDone, sdkPc, sdkEvents, pushPc, chunksPushed, audioStreamClosed,
                   cleanupPc, recognizerClosed, sessionStopped, sessionStoppedCloses,
                   resultChanClosed, resultChanCloses, asrPanic>>
    /\ UNCHANGED asrOthers

\* the caller cancels ctx
AsrCancel ==
    /\ AsrRunning
    /\ ~asrCtxDone
    /\ asrCtxDone' = TRUE
    /\ UNCHANGED <<sdkPc, sdkEvents, pushPc, chunksPushed, audioStreamClosed, cleanupPc,
                   recognizerClosed, sessionStopped, sessionStoppedCloses, resultChan,
                   resultChanClosed, resultChanCloses, asrPanic>>
    /\ UNCHANGED asrOthers

\* the caller closes audioStream
AudioStreamEnd ==
    /\ AsrRunning
    /\ ~audioStreamClosed
    /\ audioStreamClosed' = TRUE
    /\ UNCHANGED <<asrCtxDone, sdkPc, sdkEvents, pushPc, chunksPushed, cleanupPc,
                   recognizerClosed, sessionStopped, sessionStoppedCloses, resultChan,
                   resultChanClosed, resultChanCloses, asrPanic>>
    /\ UNCHANGED asrOthers

SdkRecognizedAny == \E reason \in {"RecognizedSpeech", "NoMatch"} : SdkRecognized(reason)

SdkCanceledAny == \E reason \in {"Error", "EndOfStream"} : SdkCanceled(reason)

PushAnyChunk == \E ok \in BOOLEAN : PushChunk(ok)

AsrNext ==
    \/ SdkSessionStopped
    \/ StoppedCheck
    \/ StoppedClose
    \/ SdkRecognizedAny
    \/ RecognizedSend
    \/ SdkCanceledAny
    \/ CanceledSend
    \/ CanceledCheck
    \/ CanceledClose
    \/ PushCtxDone
    \/ PushStreamEnded
    \/ PushAnyChunk
    \/ WriteErrSend
    \/ WriteErrCheck
    \/ WriteErrClose
    \/ CleanupAudioEnded
    \/ CleanupSessionWait
    \/ CleanupCloseRecognizer
    \/ CleanupCloseResult
    \/ AsrReceive
    \/ AsrCancel
    \/ AudioStreamEnd

(***************************************************************************)
(* The forwarding goroutine of ContextTTSAdapter.TextToSpeechStreamWith-   *)
(* Context for a provider without a context-aware method, base.go:246-282. *)
(* Frames are numbered in the order the provider produces them.            *)
(***************************************************************************)
FwdInit ==
    /\ fwdCtxDone = FALSE
    /\ fwdPc = "select"
    /\ streamChan = << >>
    /\ streamChanClosed = FALSE
    /\ framesProduced = 0
    /\ fwdFrame = 0
    /\ fwdOutputChan = << >>
    /\ fwdOutputClosed = FALSE
    /\ fwdOutputCloses = 0
    /\ fwdDelivered = << >>
    /\ fwdPanicked = FALSE

\* the goroutine has not panicked: the process runs
FwdRunning == ~fwdPanicked

\* the named result cancelFunc, base.go:236: this path assigns nothing to it
\* before `return outputChan, cancelFunc, nil`, so it holds nil
cancelFunc == "nil"

\* defer close(outputChan), base.go:256, and the goroutine ends
FwdReturn ==
    /\ fwdPc' = "done"
    /\ fwdOutputClosed' = TRUE
    /\ fwdOutputCloses' = fwdOutputCloses + 1

\* cancelFunc(); return: the call of a nil func panics, the deferred close
\* runs while the panic unwinds
FwdCancelAndReturn ==
    /\ fwdPanicked' = (cancelFunc = "nil")
    /\ FwdReturn

\* the provider puts its next frame on streamChan
ProviderSend ==
    /\ FwdRunning
    /\ ~streamChanClosed
    /\ framesProduced < MaxFwdFrames
    /\ framesProduced' = framesProduced + 1
    /\ streamChan' = Append(streamChan, framesProduced + 1)
    /\ UNCHANGED <<fwdCtxDone, fwdPc, streamChanClosed, fwdFrame, fwdOutputChan,
                   fwdOutputClosed, fwdOutputCloses, fwdDelivered, fwdPanicked>>
    /\ UNCHANGED fwdOthers

\* the provider closes streamChan
ProviderClose ==
    /\ FwdRunning
    /\ ~streamChanClosed
    /\ streamChanClosed' = TRUE
    /\ UNCHANGED <<fwdCtxDone, fwdPc, streamChan, framesProduced, fwdFrame, fwdOutputChan,
                   fwdOutputClosed, fwdOutputCloses, fwdDelivered, fwdPanicked>>
    /\ UNCHANGED fwdOthers

\* base.go:260-263: case <-ctx.Done(): cancelFunc(); return
FwdCtxDone ==
    /\ FwdRunning
    /\ fwdPc = "select"
    /\ fwdCtxDone
    /\ FwdCancelAndReturn
    /\ UNCHANGED <<fwdCtxDone, streamChan, streamChanClosed, framesProduced, fwdFrame,
                   fwdOutputChan, fwdDelivered>>
    /\ UNCHANGED fwdOthers

\* base.go:264, 269: case frame, ok := <-streamChan with ok true
FwdRecvFrame ==
    /\ FwdRunning
    /\ fwdPc = "select"
    /\ streamChan # << >>
    /\ fwdFrame' = Head(streamChan)
    /\ streamChan' = Tail(streamChan)
    /\ fwdPc' = "forward"
    /\ UNCHANGED <<fwdCtxDone, streamChanClosed, framesProduced, fwdOutputChan,
                   fwdOutputClosed, fwdOutputCloses, fwdDelivered, fwdPanicked>>
    /\ UNCHANGED fwdOthers

\* base.go:264-268: streamChan is closed and drained, return
FwdRecvClosed ==
    /\ FwdRunning
    /\ fwdPc = "select"
    /\ streamChan = << >> /\ streamChanClosed
    /\ FwdReturn
    /\ UNCHANGED <<fwdCtxDone, streamChan, streamChanClosed, framesProduced, fwdFrame,
                   fwdOutputChan, fwdDelivered, fwdPanicked>>
    /\ UNCHANGED fwdOthers

\* base.go:270-274: case <-ctx.Done(): cancelFunc(); return of the inner select
FwdForwardCtxDone ==
    /\ FwdRunning
    /\ fwdPc = "forward"
    /\ fwdCtxDone
    /\ FwdCancelAndReturn
    /\ UNCHANGED <<fwdCtxDone, streamChan, streamChanClosed, framesProduced, fwdFrame,
                   fwdOutputChan, fwdDelivered>>
    /\ UNCHANGED fwdOthers

\* base.go:275-277: case outputChan <- frame
FwdForward ==
    /\ FwdRunning
    /\ fwdPc = "forward"
    /\ Len(fwdOutputChan) < FwdOutputCap
    /\ fwdOutputChan' = Append(fwdOutputChan, fwdFrame)
    /\ fwdPc' = "select"
    /\ UNCHANGED <<fwdCtxDone, streamChan, streamChanClosed, framesProduced, fwdFrame,
                   fwdOutputClosed, fwdOutputCloses, fwdDelivered, fwdPanicked>>
    /\ UNCHANGED fwdOthers

\* the caller takes one frame off outputChan
FwdReceive ==
    /\ FwdRunning
    /\ fwdOutputChan # << >>
    /\ fwdDelivered' = Append(fwdDelivered, Head(fwdOutputChan))
    /\ fwdOutputChan' = Tail(fwdOutputChan)
    /\ UNCHANGED <<fwdCtxDone, fwdPc, streamChan, streamChanClosed, framesProduced, fwdFrame,
                   fwdOutputClosed, fwdOutputCloses, fwdPanicked>>
    /\ UNCHANGED fwdOthers

\* the caller cancels ctx
FwdCancel ==
    /\ FwdRunning
    /\ ~fwdCtxDone
    /\ fwdCtxDone' = TRUE
    /\ UNCHANGED <<fwdPc, streamChan, streamChanClosed, framesProduced, fwdFrame,
                   fwdOutputChan, fwdOutputClosed, fwdOutputCloses, fwdDelivered, fwdPanicked>>
    /\ UNCHANGED fwdOthers

FwdNext ==
    \/ ProviderSend
    \/ ProviderClose
    \/ FwdCtxDone
    \/ FwdRecvFrame
    \/ FwdRecvClosed
    \/ FwdForwardCtxDone
    \/ FwdForward
    \/ FwdReceive
    \/ FwdCancel

Init ==
    /\ CtlInit /\ AccInit /\ TtsInit /\ NewAudioState /\ ProvInit /\ SsInit
    /\ AsrInit /\ FwdInit

\* the Controller with its consumer and the caller that may cancel
SpecCtl == Init /\ [][CtlNext]_vars

\* the accumulator goroutine fed by the chat model's stream
SpecAcc == Init /\ [][AccNext]_vars

\* the Transform goroutine with its input, the backend, the consumer of
\* its streams and the caller that may cancel; and calls of Invoke
SpecTts == Init /\ [][TtsNext]_vars

\* one AudioState, the goroutines that call its methods and those that wait
\* on its condition variable
SpecAud == Init /\ [][AudNext]_vars

\* the construction of providers from one config and their With methods
SpecProv == Init /\ [][ProvNext]_vars

\* the stream-based controller with its upstream, its consumer and the
\* caller that may cancel
SpecSs == Init /\ [][SsNext]_vars

\* the channel-based controller has read its upstream to io.EOF and returned
SameInput == pc = "done" /\ term = "EOF"

\* the stream-based controller starts on the upstream the other one has read
PairSsLoopTop == SameInput /\ SsLoopTop

\* its Recv returns the next message of that upstream
PairSsRecvMessage ==
    /\ SameInput
    /\ Len(ssRecvLog) < Len(recvLog)
    /\ SsRecvMessage(recvLog[Len(ssRecvLog) + 1])

\* its Recv returns io.EOF once that upstream is read
PairSsRecvEOF ==
    /\ SameInput
    /\ Len(ssRecvLog) = Len(recvLog)
    /\ SsRecvEOF

\* its consumer closes the reader
PairSsReaderClose == SameInput /\ SsReaderClose

PairNext ==
    \/ LoopTop
    \/ RecvEOF
    \/ RecvAnyMessage
    \/ SendSentence
    \/ SendToolCalls
    \/ SendEnd
    \/ Receive
    \/ PairSsLoopTop
    \/ PairSsRecvMessage
    \/ PairSsRecvEOF
    \/ SsSendSentence
    \/ SsSendToolCalls
    \/ SsSendEnd
    \/ SsReceive
    \/ PairSsReaderClose

\* the two controllers run one after the other on one upstream that ends in
\* io.EOF, with no cancellation
SpecPair == Init /\ [][PairNext]_vars

\* StreamingRecognize: the SDK thread, the two goroutines and the caller
SpecAsr == Init /\ [][AsrNext]_vars

\* the forwarding goroutine with the provider and the caller
SpecFwd == Init /\ [][FwdNext]_vars

(***************************************************************************)
(* Properties of the Controller.                                           *)
(***************************************************************************)
\* the events the Controller has sent, in the order of the sends
SentEvents == [i \in 1..Len(sentLog) |-> sentLog[i].ev]

LastSent == sentLog[Len(sentLog)].ev

IsPrefix(s, u) == Len(s) <= Len(u) /\ SubSeq(u, 1, Len(s)) = s

\* C1: an event with IsEnd=true is the last event on the channel: once it is
\* sent, the worker has returned, the channel is closed and no event follows.
C1_IsEndIsLast ==
    \A i \in 1..Len(sentLog) :
        sentLog[i].ev.IsEnd => /\ i = Len(sentLog)
                               /\ pc = "done"
                               /\ chClosed

C1_Witness ==
    /\ Len(sentLog) >= 3
    /\ LastSent.IsEnd
    /\ chClosed
    /\ sentenceChannel = << >>

\* C2: the channel is closed exactly once on every exit path: the worker has
\* left by one of its exit paths iff close ran, it ran once, and neither a
\* second close nor a send on the closed channel ever happened.
C2_ClosedExactlyOnce ==
    /\ closeCount \in {0, 1}
    /\ chClosed <=> closeCount = 1
    /\ pc = "done" <=> chClosed
    /\ exitPath # "none" <=> pc = "done"
    /\ exitPath \in {"none", "eof", "error", "nilMessage", "cancelTop",
                     "cancelSentence", "cancelToolCalls", "cancelEnd"}
    /\ ~panicked

C2_Witness ==
    /\ exitPath = "cancelToolCalls"
    /\ closeCount = 1
    /\ chClosed
    /\ Len(sentLog) >= 1

\* C3: when the stream ends with EOF and the context is not cancelled, the
\* worker ends having sent exactly one IsEnd event, the last one, whose Text
\* is the buffered remainder: "Bye" after the single delta "Bye", the empty
\* string when nothing is buffered.
C3_FinalEventCarriesRemainder ==
    (pc = "done" /\ term = "EOF" /\ ~ctxDone) =>
        /\ Len(sentLog) >= 1
        /\ LastSent = LLMResponseStruct(buffer, FALSE, TRUE, << >>)
        /\ Cardinality({i \in 1..Len(sentLog) : sentLog[i].ev.IsEnd}) = 1
        /\ chClosed
        /\ recvLog = <<Message(StrBye, << >>)>> => LastSent.Text = StrBye
        /\ buffer = StrEmpty => LastSent.Text = StrEmpty

C3_Witness ==
    /\ pc = "done" /\ term = "EOF" /\ ~ctxDone
    /\ recvLog = <<Message(StrHi, << >>), Message(StrBye, << >>)>>
    /\ LastSent.Text = StrBye
    /\ LastSent.IsEnd

\* C4: a stream that yields no message before EOF, without cancellation,
\* makes the worker send exactly one event, {Text: "", IsEnd: true}, and close.
C4_EmptyStreamOneEndEvent ==
    (pc = "done" /\ term = "EOF" /\ recvLog = << >> /\ ~ctxDone) =>
        /\ SentEvents = <<LLMResponseStruct(StrEmpty, FALSE, TRUE, << >>)>>
        /\ chClosed

C4_Witness ==
    /\ pc = "done" /\ term = "EOF" /\ recvLog = << >> /\ ~ctxDone
    /\ Len(sentLog) = 1
    /\ sentenceChannel = << >>

\* C5: cancelled before the upstream delivers any message, the worker ends
\* with no event sent, the channel closed and no panic, wherever the worker
\* stood (loop top or Recv) when the cancellation came.
C5_CancelBeforeTokenNoEvents ==
    (pc = "done" /\ cancelPc \in {"top", "recv"} /\ recvLog = << >>) =>
        /\ sentLog = << >>
        /\ chClosed
        /\ ~panicked

\* The events a message sequence calls for, delta by delta: the sentences
\* cut from the buffer in extraction order, then the tool calls of the delta.
RECURSIVE ExpectedEvents(_, _, _, _)
ExpectedEvents(msgs, k, buf, first) ==
    IF k > Len(msgs) THEN << >>
    ELSE LET m      == msgs[k]
             b      == buf \o m.Content
             cut    == m.Content # StrEmpty /\ ContainsSentenceSeparator(m.Content, first)
             r      == ExtractSmartSentences(b, MinSentenceLen, MaxSentenceLen, first)
             ss     == IF cut THEN SelectSeq(r.sentences, LAMBDA s : s # StrEmpty) ELSE << >>
             first2 == first /\ ~cut
             texts  == [i \in 1..Len(ss) |->
                          [ev  |-> LLMResponseStruct(ss[i], first /\ i = 1, FALSE, << >>),
                           src |-> k]]
             tools  == IF Len(m.ToolCalls) > 0
                       THEN <<[ev  |-> LLMResponseStruct(StrEmpty, first2, FALSE, m.ToolCalls),
                               src |-> k]>>
                       ELSE << >>
         IN  texts \o tools \o ExpectedEvents(msgs, k + 1, IF cut THEN r.remaining ELSE b, first2)

\* the events of the deltas, without the final event of the EOF flush
DeltaEvents == SelectSeq(sentLog, LAMBDA e : ~e.ev.IsEnd)

\* C6: events are sent in delta-arrival order: what has been sent is always a
\* prefix of the events the received deltas call for (sentences of a delta in
\* extraction order, then its tool calls), and when the worker goes for the
\* next delta every event of the deltas received so far has been sent.
C6_DeltaArrivalOrder ==
    /\ IsPrefix(DeltaEvents, ExpectedEvents(recvLog, 1, StrEmpty, TRUE))
    /\ \A i, j \in 1..Len(sentLog) : i < j => sentLog[i].src <= sentLog[j].src
    /\ pc \in {"top", "recv", "sendEnd"} =>
           DeltaEvents = ExpectedEvents(recvLog, 1, StrEmpty, TRUE)

C6_Witness ==
    /\ pc = "recv"
    /\ recvLog = <<Message(StrHello, <<ToolX>>), Message(StrHi, <<ToolX>>)>>
    /\ Len(sentLog) = 5
    /\ sentLog[3].ev.ToolCalls = <<ToolX>> /\ sentLog[3].src = 1
    /\ sentLog[4].ev.Text = StrHi /\ sentLog[4].src = 2

SendPcs == {"sendSentence", "sendToolCalls", "sendEnd"}

\* C7: every send is cancellation-aware: with the channel full, nobody
\* receiving and the context cancelled, the worker is not blocked, and the
\* step it takes abandons the send: nothing is sent and the channel is closed.
C7_SendAbandonedOnCancel ==
    /\ [](pc \in SendPcs /\ ctxDone => ENABLED Worker)
    /\ [][(pc \in SendPcs /\ ctxDone /\ Len(sentenceChannel) = SentenceChannelCap /\ pc' # pc)
             => (pc' = "done" /\ chClosed' /\ sentLog' = sentLog
                 /\ sentenceChannel' = sentenceChannel)]_vars

C7_Witness ==
    /\ exitPath = "cancelSentence"
    /\ Len(sentenceChannel) = SentenceChannelCap
    /\ chClosed

C9_HelloWorldSentences ==
    (pc = "done" /\ term = "EOF" /\ ~ctxDone /\ recvLog = <<Message(StrHello, << >>)>>) =>
        /\ [i \in 1..Len(sentLog) |-> sentLog[i].ev.Text] = <<StrHelloWorld, StrHowAreYou, StrEmpty>>
        /\ [i \in 1..Len(sentLog) |-> sentLog[i].ev.IsEnd] = <<FALSE, FALSE, TRUE>>

C9_Witness ==
    /\ pc = "done" /\ term = "EOF" /\ ~ctxDone
    /\ recvLog = <<Message(StrHello, << >>)>>
    /\ Len(sentLog) = 3

(***************************************************************************)
(* Properties of the tool-call accumulator.                                *)
(***************************************************************************)
\* C10: the named fragment {name: "X", args: "{\"a\":"}, then the unnamed
\* continuation {args: "1}"}, then EOF, give exactly one message: the tool
\* call X with arguments "{\"a\":1}".
C10_FragmentsRoundTrip ==
    (/\ accPc = "done"
     /\ accTerm = "EOF"
     /\ accLog = <<Message(StrEmpty, <<ToolCall("X", ArgsOpen)>>),
                   Message(StrEmpty, <<ToolCall("", ArgsClose)>>)>>)
        => respStream = <<Message(StrEmpty, <<ToolCall("X", ArgsFull)>>)>>

C10_Witness ==
    /\ accPc = "done"
    /\ accTerm = "EOF"
    /\ accLog = <<Message(StrEmpty, <<ToolCall("X", ArgsOpen)>>),
                  Message(StrEmpty, <<ToolCall("", ArgsClose)>>)>>
    /\ Len(respStream) = 1
    /\ respClosed

\* C11: a pending call is emitted at the moment its argument buffer parses
\* as valid JSON, by a continuation or already by the named fragment, and the
\* accumulator is then back at NoPending: while the model stream is read, a
\* call that is still pending has a buffer that is not valid JSON.
C11_EmittedWhenBufferValid ==
    (accPc = "loop" /\ currentToolCall # << >>) => ~isValidJSON(toolCallBuffer)

\* C12: at EOF a call that is still pending is sent once, with the arguments
\* accumulated so far, in the step that closes the output stream; with no
\* pending call that step sends nothing.
C12_PendingFlushedAtEOF ==
    [][(accTerm = "none" /\ accTerm' = "EOF") =>
          /\ respClosed'
          /\ IF currentToolCall # << >>
             THEN respStream' = Append(respStream,
                      Message(StrEmpty, <<ToolCall(currentToolCall[1].Name, toolCallBuffer)>>))
             ELSE respStream' = respStream]_vars

C12_Witness ==
    /\ accTerm = "EOF"
    /\ respClosed
    /\ accLog = <<Message(StrEmpty, <<ToolCall("X", ArgsOpen)>>),
                  Message(StrEmpty, <<ToolCall("", ArgsOpen)>>)>>
    /\ respStream = <<Message(StrEmpty, <<ToolCall("X", ArgsOpen \o ArgsOpen)>>)>>

\* the sub-streams the outer stream carries when every message received got its own
ExpectedOuter == [i \in 1..Len(ttsRecvLog) |-> i]

\* no reader of a sub-stream has been closed by the consumer
NoSubReaderClosed == \A k \in 1..Len(subs) : ~subs[k].readerClosed

C14_SynthErrorKeepsOuterOpen ==
    (/\ \E j \in 1..Len(synthLog) : ~synthLog[j].ok
     /\ ~ttsCtxDone /\ ~outerReaderClosed /\ NoSubReaderClosed
     /\ outerClosed)
        => ttsTerm # "none"

\* C15: with both callbacks configured, once the adapter has stopped the
\* start callback and the end callback have been called the same number of
\* times; here without cancellation and with no reader closed.
C15_CallbacksBalanced ==
    (/\ hasStartCb /\ hasEndCb
     /\ ttsPc = "done"
     /\ ~ttsCtxDone /\ ~outerReaderClosed /\ NoSubReaderClosed)
        => startCalls = endCalls

\* the chunks of all the sub-streams
AllChunks == [k \in 1..Len(subs) |-> subs[k].chunks]

\* C16: Recv is reached only from the check at the top of the loop and a frame
\* is forwarded only after the check in the range loop, both with ctx not
\* done; the step that observes cancellation closes the sub-stream that is
\* open and the outer stream; after it no sub-stream and no chunk is sent.
C16_CancellationChecked ==
    [][/\ (ttsPc' = "recv" /\ ttsPc # "recv") => (ttsPc = "top" /\ ~ttsCtxDone)
       /\ (ttsPc' = "sendFrame" /\ ttsPc # "sendFrame") => (ttsPc = "range" /\ ~ttsCtxDone)
       /\ (Len(ttsRecvLog') > Len(ttsRecvLog) \/ AllChunks' # AllChunks) =>
              ttsExit' \notin {"cancelTop", "cancelFrame"}
       /\ (ttsExit = "none" /\ ttsExit' \in {"cancelTop", "cancelFrame"}) =>
              /\ ttsCtxDone
              /\ outerClosed' /\ outerCloseCount' = 1
              /\ \A k \in 1..Len(subs) : subs'[k].closeCount = 1
              /\ outer' = outer
       /\ ttsExit \in {"cancelTop", "cancelFrame"} =>
              /\ outer' = outer
              /\ AllChunks' = AllChunks]_vars

C16_Witness ==
    /\ ttsExit = "cancelFrame"
    /\ outerClosed
    /\ subs[1].chunks = <<TtsChunk(StrHi, NilData), TtsChunk(StrEmpty, Frame(1, 1))>>
    /\ subs[1].closeCount = 1
    /\ frame = Frame(1, 2)

\* sub-stream k has been closed after its synthesis succeeded, with no
\* cancellation and its reader open
SubStreamComplete(k) ==
    /\ subs[k].closeCount = 1
    /\ ~subs[k].readerClosed
    /\ ~ttsCtxDone
    /\ \E j \in 1..Len(synthLog) : synthLog[j].sentence = k /\ synthLog[j].ok

\* C17: in every sub-stream the first chunk is the label chunk (Text = the
\* sentence, Data = nil), every later chunk has an empty Text and carries one
\* frame, the frames are the backend's frames of that sentence in order from
\* the first, and a sub-stream completed without cancellation has them all.
C17_LabelThenFrames ==
    \A k \in 1..Len(subs) :
        /\ subs[k].chunks # << >> =>
              /\ subs[k].chunks[1] = TtsChunk(ttsRecvLog[k], NilData)
              /\ \A i \in 2..Len(subs[k].chunks) :
                    subs[k].chunks[i] = TtsChunk(StrEmpty, Frame(k, i - 1))
        /\ SubStreamComplete(k) =>
              \E j \in 1..Len(synthLog) :
                  /\ synthLog[j].sentence = k
                  /\ Len(subs[k].chunks) = 1 + synthLog[j].frames

C17_Witness ==
    /\ Len(subs) = 2 /\ Len(subs[2].chunks) = 2
    /\ SubStreamComplete(1)
    /\ subs[1].chunks = <<TtsChunk(StrHi, NilData), TtsChunk(StrEmpty, Frame(1, 1)),
                          TtsChunk(StrEmpty, Frame(1, 2))>>

\* this step is a call of method op
AudCalled(op) == audOps' = audOps + 1 /\ audLastOp' = op

\* C18: SetPause in Playing sets State to Pause and broadcasts once; in Idle
\* or Pause it leaves State alone and does not broadcast; it returns nil.
C18_SetPauseOnlyFromPlaying ==
    [][AudCalled("SetPause") =>
          /\ audLastRet' = "nil" /\ ~audPanicked'
          /\ IF audState = AudioChannelStatePlaying
             THEN /\ audState' = AudioChannelStatePause
                  /\ audBroadcasts' = audBroadcasts + 1
             ELSE /\ audState' = audState
                  /\ audBroadcasts' = audBroadcasts
                  /\ wpc' = wpc]_vars

C18_Witness ==
    /\ audLastOp = "SetPause" /\ audOps = 3
    /\ audState = AudioChannelStatePause
    /\ audBroadcasts = 2

\* C19: SetStop in Playing or Pause sets State to Idle and broadcasts once; in
\* Idle it leaves State alone and does not broadcast; it returns nil.
C19_SetStopFromPlayingOrPause ==
    [][AudCalled("SetStop") =>
          /\ audLastRet' = "nil" /\ ~audPanicked'
          /\ IF audState \in {AudioChannelStatePlaying, AudioChannelStatePause}
             THEN /\ audState' = AudioChannelStateIdle
                  /\ audBroadcasts' = audBroadcasts + 1
             ELSE /\ audState' = audState
                  /\ audBroadcasts' = audBroadcasts
                  /\ wpc' = wpc]_vars

C19_Witness ==
    /\ audLastOp = "SetStop" /\ audOps = 3
    /\ audState = AudioChannelStateIdle
    /\ audBroadcasts = 3
    /\ wpc[1] = "woken" /\ awaiting[1] = AudioChannelStatePause

\* C20: SetPlay sets State to Playing from any State and broadcasts on every
\* call, so every goroutine waiting on the condition variable is woken, also
\* when State was Playing already.
C20_SetPlayAlwaysBroadcasts ==
    [][AudCalled("SetPlay") =>
          /\ audLastRet' = "nil" /\ ~audPanicked'
          /\ audState' = AudioChannelStatePlaying
          /\ audBroadcasts' = audBroadcasts + 1
          /\ \A w \in Waiters : wpc[w] = "waiting" => wpc'[w] = "woken"]_vars

C20_Witness ==
    /\ audLastOp = "SetPlay" /\ audOps = 2
    /\ audState = AudioChannelStatePlaying
    /\ audBroadcasts = 2
    /\ wpc[1] = "woken" /\ awaiting[1] = AudioChannelStatePlaying

\* C21: CancelCtx, called with a session context installed, cancels that
\* context and leaves State idle, from each of idle, playing and pause.
C21_CancelCtxForcesIdle ==
    [][(AudCalled("CancelCtx") /\ audCancel # 0) =>
          /\ audLastRet' = "nil"
          /\ audCtx \in audCancelled'
          /\ audState' = AudioChannelStateIdle]_vars

C21_Witness ==
    /\ audLastOp = "CancelCtx" /\ audLastRet = "nil"
    /\ audOps = 3 /\ audBroadcasts = 2
    /\ audState = AudioChannelStateIdle
    /\ audCtx = 1 /\ audCancelled = {1}

\* C22: RestartSessionCtx, called with a session context installed, in one
\* step cancels that context, sets State idle and installs a new context
\* that is not cancelled; a cancelled context stays cancelled, and a step
\* cancels no context but the current one.
C22_RestartInstallsFreshCtx ==
    [][/\ (AudCalled("RestartSessionCtx") /\ audCancel # 0) =>
              /\ audLastRet' = "nil"
              /\ audCtx \in audCancelled'
              /\ audState' = AudioChannelStateIdle
              /\ audCtx' # 0 /\ audCtx' # audCtx
              /\ audCtx' \notin audCancelled'
              /\ audCancel' = audCtx'
       /\ audCancelled \subseteq audCancelled'
       /\ (audCancelled' \ audCancelled) \subseteq {audCtx}]_vars

C22_Witness ==
    /\ audLastOp = "CancelCtx" /\ audLastRet = "nil"
    /\ audCtx = 2
    /\ audCancelled = {1, 2}
    /\ audOps = 3 /\ audBroadcasts = 1

\* C23: no call of a method of AudioState panics.
C23_NoPanic ==
    ~audPanicked

\* C24: no wakeup is missed: a goroutine blocked in Cond.Wait until State
\* leaves the value it saw is woken by every operation that changes State, so
\* while it stays blocked State still has that value.
C24_NoMissedWakeup ==
    \A w \in Waiters : wpc[w] = "waiting" => audState = awaiting[w]

\* C25: WithMaxTokens and WithStreamable return a new instance that carries
\* the new value and has the receiver's value in every other field; the
\* receiver and every other instance stay as they were.
C25_WithReturnsCopy ==
    [][(provLast'.op \in {"WithMaxTokens", "WithStreamable"} /\ providers' # providers) =>
          LET p == provLast'.recv
              q == provLast'.result
          IN  /\ q # p
              /\ q = Len(providers) + 1
              /\ Len(providers') = q
              /\ \A i \in 1..Len(providers) : providers'[i] = providers[i]
              /\ IF provLast'.op = "WithMaxTokens"
                 THEN /\ providers'[q].maxTokens = provLast'.argInt
                      /\ [providers'[q] EXCEPT !.maxTokens = providers[p].maxTokens]
                            = providers[p]
                 ELSE /\ providers'[q].streamable = provLast'.argBool
                      /\ [providers'[q] EXCEPT !.streamable = providers[p].streamable]
                            = providers[p]]_vars

C25_Witness ==
    /\ provLast.op = "WithMaxTokens" /\ provLast.recv = 1 /\ provLast.result = 2
    /\ providers[1].maxTokens = DefaultMaxTokens
    /\ providers[2].maxTokens = 1000
    /\ providers[2].streamable = providers[1].streamable

\* the config value is a string that is not empty
HasString(v) == v.kind = "string" /\ v.str # ""

\* C26: NewEinoLLMProvider returns an error and no provider when the config
\* has no non-empty "type", no non-empty "model_name" or a type other than
\* openai and ollama; when it succeeds the provider's modelName and
\* providerType are the config's values and streamable is true if the config
\* has no "streamable".
C26_NewProviderValidates ==
    provLast.op = "NewEinoLLMProvider" =>
        /\ (\/ ~HasString(provConfig.type)
            \/ ~HasString(provConfig.model_name)
            \/ AsString(provConfig.type) \notin {"openai", "ollama"})
              => (provLast.err /\ provLast.result = 0)
        /\ provLast.err => provLast.result = 0
        /\ ~provLast.err =>
              /\ provLast.result \in 1..Len(providers)
              /\ providers[provLast.result].modelName = provConfig.model_name.str
              /\ providers[provLast.result].providerType = provConfig.type.str
              /\ provConfig.streamable = Absent =>
                    /\ providers[provLast.result].streamable
                    /\ GetModelInfo(providers[provLast.result]).streamable

C26_Witness ==
    /\ provLast.op = "NewEinoLLMProvider" /\ ~provLast.err /\ provLast.result = 1
    /\ provConfig.type = StrVal("ollama")
    /\ provConfig.streamable = Absent
    /\ providers[1].streamable

\* C27: within one response IsStart is true only on the first text sentence
\* sent: no tool-call event has IsStart, and no event after the first one
\* with IsStart has it.
C27_IsStartOnlyFirstSentence ==
    \A i \in 1..Len(sentLog) :
        sentLog[i].ev.IsStart =>
            /\ sentLog[i].ev.ToolCalls = << >>
            /\ \A j \in 1..(i - 1) : ~sentLog[j].ev.IsStart

\* C28: the channel never holds more than SentenceChannelCap events; with
\* the channel full, the worker at a send and no cancellation, the worker
\* has no step, so until a receive or a cancellation it stays at the send
\* and no upstream message is read.
C28_BackpressureAtCapacity ==
    /\ [](Len(sentenceChannel) <= SentenceChannelCap)
    /\ []((pc \in SendPcs /\ Len(sentenceChannel) = SentenceChannelCap /\ ~ctxDone)
             => ~ENABLED Worker)
    /\ [][(pc \in SendPcs /\ Len(sentenceChannel) = SentenceChannelCap /\ ~ctxDone)
             => (pc' = pc /\ recvLog' = recvLog /\ sentLog' = sentLog)]_vars
    /\ [][recvLog' # recvLog => pc = "recv"]_vars

C28_Witness ==
    /\ pc \in SendPcs
    /\ Len(sentenceChannel) = SentenceChannelCap
    /\ ~ctxDone
    /\ Len(sentLog) = SentenceChannelCap

\* this step receives message m from the model stream
AccReceived(m) == accLog' = Append(accLog, m)

\* C29: at most one call is pending; a named fragment makes its own call the
\* pending one with its own arguments as the buffer and emits nothing, so
\* what was accumulated before is dropped; an emitted call carries the
\* buffer as it stood since the last named fragment; and after a completed
\* call is emitted the pending call and the buffer are empty.
C29_OnePendingCall ==
    /\ [](Len(currentToolCall) <= 1)
    /\ [](currentToolCall = << >> => toolCallBuffer = StrEmpty)
    /\ [](currentToolCall # << >> => currentToolCall[1].Arguments = toolCallBuffer)
    /\ [][\A m \in AccMessages :
            (AccReceived(m) /\ Len(m.ToolCalls) > 0) =>
                IF m.ToolCalls[1].Name # ""
                THEN /\ currentToolCall' = <<m.ToolCalls[1]>>
                     /\ toolCallBuffer' = m.ToolCalls[1].Arguments
                     /\ respStream' = respStream
                ELSE \/ /\ currentToolCall = << >>
                        /\ respStream' = respStream
                        /\ currentToolCall' = << >>
                        /\ toolCallBuffer' = StrEmpty
                     \/ /\ currentToolCall # << >>
                        /\ respStream' = respStream
                        /\ currentToolCall' =
                               <<ToolCall(currentToolCall[1].Name,
                                          toolCallBuffer \o m.ToolCalls[1].Arguments)>>
                        /\ toolCallBuffer' = toolCallBuffer \o m.ToolCalls[1].Arguments
                     \/ /\ currentToolCall # << >>
                        /\ respStream' = Append(respStream,
                               Message(StrEmpty,
                                   <<ToolCall(currentToolCall[1].Name,
                                              toolCallBuffer \o m.ToolCalls[1].Arguments)>>))
                        /\ currentToolCall' = << >>
                        /\ toolCallBuffer' = StrEmpty]_vars

C29_Witness ==
    /\ accLog = <<Message(StrEmpty, <<ToolCall("X", ArgsFull)>>),
                  Message(StrEmpty, <<ToolCall("Y", ArgsOpen)>>),
                  Message(StrEmpty, <<ToolCall("", ArgsClose)>>)>>
    /\ respStream = <<Message(StrEmpty, <<ToolCall("Y", ArgsOpen \o ArgsClose)>>)>>
    /\ currentToolCall = << >>
    /\ toolCallBuffer = StrEmpty

\* the messages of a sequence that have Content and no tool call
TextOnly(msgs) == SelectSeq(msgs, LAMBDA m : m.Content # StrEmpty /\ m.ToolCalls = << >>)

\* C30: every message with Content and no tool-call fragment is forwarded
\* once, in arrival order and unchanged, whether or not a call is pending,
\* and forwarding it changes neither the pending call nor its buffer.
C30_TextOnlyForwarded ==
    /\ [](TextOnly(respStream) = TextOnly(accLog))
    /\ [][\A m \in AccMessages :
            (AccReceived(m) /\ m.Content # StrEmpty /\ m.ToolCalls = << >>) =>
                /\ respStream' = Append(respStream, m)
                /\ currentToolCall' = currentToolCall
                /\ toolCallBuffer' = toolCallBuffer
                /\ isToolCallComplete' = isToolCallComplete]_vars

C30_Witness ==
    /\ accLog = <<Message(StrEmpty, <<ToolCall("X", ArgsOpen)>>), Message(StrHi, << >>)>>
    /\ respStream = <<Message(StrHi, << >>)>>
    /\ currentToolCall = <<ToolCall("X", ArgsOpen)>>
    /\ toolCallBuffer = ArgsOpen

\* the positions of the stream-based controller at a Send
SsSendPcs == {"sendSentence", "sendToolCalls", "sendEnd"}

\* C31: after cancellation no send of the stream-based controller waits for
\* a consumer: at a Send with ctx cancelled the worker always has a step.
C31_SendsAbandonedOnCancel ==
    (ssCtxDone /\ ssPc \in SsSendPcs) => ENABLED SsWorker

\* C32: every method of AudioState reads and writes State, Ctx and Cancel
\* and broadcasts with a.Lock held.
C32_AccessUnderLock ==
    audLocked

\* C33: the text not yet emitted stays bounded when no punctuation arrives:
\* once a delta is dealt with, the buffer is not longer than maxLen.
C33_BufferBounded ==
    pc \in {"top", "recv"} => Len(buffer) <= MaxSentenceLen

\* the sub-streams that have been pushed onto the outer stream
Pushed == {outer[i] : i \in 1..Len(outer)}

\* C34: TextToSpeechStream is called for a sentence only when its sub-stream
\* is on the outer stream; a sub-stream is never closed twice, is closed when
\* the worker has gone on to the next sentence, and every sub-stream created
\* is closed once when the worker has exited and closed the outer stream.
C34_SubStreamsClosedOnce ==
    /\ [][Len(synthLog') > Len(synthLog) => Len(subs) \in Pushed]_vars
    /\ [](\A k \in 1..Len(subs) :
            /\ subs[k].closeCount <= 1
            /\ k < Len(subs) => subs[k].closeCount = 1
            /\ outerClosed => subs[k].closeCount = 1)
    /\ [](ttsPc = "done" <=> outerClosed)
    /\ [](outerCloseCount <= 1)

C34_Witness ==
    /\ ttsExit = "frameReaderClosed"
    /\ outerClosed
    /\ Len(subs) = 2
    /\ subs[1].closeCount = 1 /\ subs[2].closeCount = 1
    /\ Len(synthLog) = 2

\* C35: SetPlay, SetPause and SetStop leave Ctx and Cancel alone and cancel
\* nothing, and a cancelled session context is replaced by one that is not
\* cancelled only by RestartSessionCtx.
C35_OnlyRestartRenewsCtx ==
    [][/\ (\E op \in {"SetPlay", "SetPause", "SetStop"} : AudCalled(op)) =>
              UNCHANGED <<audCtx, audCancel, audCancelled>>
       /\ (audCtx \in audCancelled /\ audCtx' \notin audCancelled') =>
              AudCalled("RestartSessionCtx")]_vars

C35_Witness ==
    /\ audLastOp = "SetPause" /\ audOps = 3
    /\ audState = AudioChannelStatePause
    /\ audCtx = 1 /\ audCancelled = {1}

\* the Content of the messages of a sequence that have one
Texts(msgs) ==
    LET withText == SelectSeq(msgs, LAMBDA m : m.Content # StrEmpty)
    IN  [i \in 1..Len(withText) |-> withText[i].Content]

\* C36: the Content of every upstream message that has one is forwarded
\* downstream, also when the message carries a tool-call fragment.
C36_NoTextLost ==
    Texts(respStream) = Texts(accLog)

\* the text and the tool calls of what the channel-based controller has sent
ChanPayloads ==
    [i \in 1..Len(sentLog) |->
        [text |-> sentLog[i].ev.Text, toolCalls |-> sentLog[i].ev.ToolCalls]]

\* the text and the tool calls of what the stream-based controller has sent
StreamPayloads ==
    [i \in 1..Len(ssSentLog) |->
        [text |-> ssSentLog[i].item.Content, toolCalls |-> ssSentLog[i].item.ToolCalls]]

\* both controllers have read the same upstream to io.EOF and returned
PairDone == SameInput /\ ssPc = "done" /\ ssTerm = "EOF"

\* C37: run on the upstream the channel-based controller has read to io.EOF,
\* the stream-based controller sends at every moment a prefix of what the
\* other one sent, and once it has returned too the two sequences of texts
\* and tool calls are equal and end with one final item, the only one marked
\* as the end, that carries the remainder.
C37_SameEmissions ==
    /\ SameInput =>
          /\ Len(StreamPayloads) <= Len(ChanPayloads)
          /\ StreamPayloads = SubSeq(ChanPayloads, 1, Len(StreamPayloads))
    /\ PairDone =>
          /\ ssRecvLog = recvLog
          /\ StreamPayloads = ChanPayloads
          /\ Len(sentLog) >= 1
          /\ \A i \in 1..Len(sentLog) : sentLog[i].ev.IsEnd <=> i = Len(sentLog)
          /\ sentLog[Len(sentLog)].ev.Text = remaining
          /\ ssSentLog[Len(ssSentLog)].item.Content = ssRemaining
          /\ ssSentLog[Len(ssSentLog)].item.ToolCalls = << >>
          /\ ~ssReaderClosed => \A i \in 1..Len(ssSentLog) : ~ssSentLog[i].closed

C37_Witness ==
    /\ PairDone
    /\ Len(recvLog) = 2
    /\ Len(ssSentLog) >= 4
    /\ \E i \in 1..Len(ssSentLog) : ssSentLog[i].item.ToolCalls # << >>
    /\ \E i \in 1..(Len(ssSentLog) - 1) : ssSentLog[i].item.Content # StrEmpty
    /\ ssRemaining # StrEmpty

\* C38: close(sessionStopped) is called at most once.
C38_SessionStoppedClosedOnce ==
    sessionStoppedCloses <= 1 /\ asrPanic # "close of closed channel"

\* C39: resultChan is closed at most once and nothing sends on it once it is
\* closed.
C39_NoSendAfterClose ==
    resultChanCloses <= 1 /\ asrPanic # "send on closed channel"

\* the frames 1..n in the order the provider produced them
FirstFrames(n) == [i \in 1..n |-> i]

\* C40: the frames the caller receives are the first frames the provider
\* produced, in order, and the goroutine does not panic; once ctx is
\* cancelled and the goroutine has ended, outputChan is closed.
C40_ForwardsAndStopsOnCancel ==
    /\ fwdDelivered \o fwdOutputChan = FirstFrames(Len(fwdDelivered) + Len(fwdOutputChan))
    /\ Len(fwdDelivered) + Len(fwdOutputChan) <= framesProduced
    /\ fwdPc = "done" => fwdOutputClosed /\ fwdOutputCloses = 1
    /\ ~fwdPanicked
====
